---- MODULE Spec2Model ----
(***************************************************************************)
(* State-machine model of the maximum power point tracker class `mppt` of  *)
(* src/src/centralcontrol/mppt.py: register_curve, reset, launch_tracker,  *)
(* gradient_descent and detect_short_circuits, run against a source-       *)
(* measure unit (SMU) whose replies are chosen nondeterministically.       *)
(*                                                                         *)
(* Units.  Voltages are integers in units of 1e-4 V (so the code's 0.0001  *)
(* is 1), currents are integers in units of 1e-4 A, times are integer      *)
(* seconds.  A dc measurement returns a list of one record per channel;    *)
(* the model keeps that single record [v, i, t, status].                   *)
(***************************************************************************)
EXTENDS Integers, Sequences, FiniteSets, TLC

(***************************************************************************)
(* Bounds of the model.                                                    *)
(***************************************************************************)
\* largest value the wall clock takes; no SMU call is started after it
MaxClock == 20
\* largest number of launch_tracker / gradient_descent calls on the instance
MaxRuns == 1
\* largest number of register_curve calls on the instance
MaxCurves == 1
\* largest number of main-loop iterations of one gradient_descent call
MaxIter == 2
\* how many steps below 0 V the explore walk of the perturb-and-observe
\* tracker is followed
MaxBelow == 2
\* how many calls on a second mppt object are followed
MaxPeerCalls == 2

(***************************************************************************)
(* Program constants.                                                      *)
(***************************************************************************)
\* 0.0001 V, the value that replaces a setpoint on the wrong side of zero
Epsilon == 1
\* defaults of gradient_descent's keyword arguments
DefaultAlpha == 10
DefaultMinStep == 20
DefaultMaxStep == 1000
DefaultDeltaZero == 100
\* momentum is kept in tenths: the default 0.1 is 1
DefaultMomentum == 1
MomentumDen == 10
\* snaith mode soak times in seconds
snaith_pre_soak_t == 15
snaith_post_soak_t == 3
\* status values tested by detect_short_circuits
CURRENT_OVER_THRESHOLD == 1
OVERCURRENT_TRIP == 2
\* the marker for "None" in t0
NoTime == 0 - 1

(***************************************************************************)
(* Helpers for Python dictionaries, modelled as functions.                 *)
(***************************************************************************)
EmptyDict == [c \in {} |-> 0]

Channels == 0 .. 3

Abs(x) == IF x < 0 THEN 0 - x ELSE x

\* a / b for real a, b, rounded toward zero at the model's resolution
TruncDiv(a, b) ==
    IF (a >= 0 /\ b > 0) \/ (a <= 0 /\ b < 0)
    THEN Abs(a) \div Abs(b)
    ELSE 0 - (Abs(a) \div Abs(b))

Keys(seq) == {seq[k] : k \in DOMAIN seq}

\* dict.pop(ch, None) on an insertion-ordered dict whose keys are kept in a sequence
PopKey(seq, ch) == SelectSeq(seq, LAMBDA x : x # ch)

\* dict.pop(ch, None) on a dict kept as a function
DropKey(f, ch) == [c \in (DOMAIN f) \ {ch} |-> f[c]]

(***************************************************************************)
(* register_curve: the per-channel computations on one sweep.  A sweep is  *)
(* a non-empty sequence of records [v, i, t].                              *)
(***************************************************************************)
Power(sw) == [k \in DOMAIN sw |-> (sw[k].v * sw[k].i) * (0 - 1)]

\* numpy.argmin / numpy.argmax return the first index of the extreme value
ArgMin(s) == CHOOSE k \in DOMAIN s :
                 /\ \A j \in DOMAIN s : s[k] <= s[j]
                 /\ \A j \in DOMAIN s : j < k => s[j] > s[k]

ArgMax(s) == CHOOSE k \in DOMAIN s :
                 /\ \A j \in DOMAIN s : s[k] >= s[j]
                 /\ \A j \in DOMAIN s : j < k => s[j] < s[k]

AbsV(sw) == [k \in DOMAIN sw |-> Abs(sw[k].v)]
AbsI(sw) == [k \in DOMAIN sw |-> Abs(sw[k].i)]

CurveIsc(sw) == sw[ArgMin(AbsV(sw))].i
CurveVoc(sw) == sw[ArgMin(AbsI(sw))].v
CurveMaxIndex(sw) == ArgMax(Power(sw))
CurveVmpp(sw) == sw[CurveMaxIndex(sw)].v
CurveImpp(sw) == sw[CurveMaxIndex(sw)].i
CurveTmpp(sw) == sw[CurveMaxIndex(sw)].t
CurvePmax(sw) == Power(sw)[CurveMaxIndex(sw)]

\* a variant that accepts every sweep
StraddlesIAlways(sw) == TRUE

StraddlesV(sw) == (\E k \in DOMAIN sw : sw[k].v <= 0) /\ (\E k \in DOMAIN sw : sw[k].v >= 0)
StraddlesI(sw) == (\E k \in DOMAIN sw : sw[k].i <= 0) /\ (\E k \in DOMAIN sw : sw[k].i >= 0)

\* the test that decides whether a light sweep replaces the stored maximum
NewPmax(stored, ch, sw) ==
    IF ch \in DOMAIN stored THEN CurvePmax(sw) > stored[ch] ELSE TRUE

VARIABLES
    \* reference state of the instance
    Voc, VocFirst, Isc, Mmpp, Vmpp, Impp, Pmax,
    abort, absolute_current_limit, t0, voltage_lock,
    \* the telemetry sink: whether one is attached, and what it was handed
    mqttc, events,
    \* the perturb-and-observe tracker of central_control_dev/mppt.py: its
    \* position, the locals of really_dumb_tracker and its wall clock
    dumb,
    \* a second mppt object of the same process: whether each of the two
    \* objects has instance attributes, and the reference state the second
    \* object sees when it is not the one of this object
    other,
    \* the SMU
    output, setpoint, smuILimit, nplc, smuLog, clock,
    \* launch_tracker / gradient_descent locals
    pc, err, pixels, callPixels, i_limit, duration, extra, snaith_mode, params,
    start_is_dict, ssvocs, data, m, deltas, next_voltages, run_time, soak_t0,
    spos, iter, q, delivered, from_launch, measured,
    \* detect_short_circuits locals
    dscChannels, dscIdx, dscRet,
    \* history
    evicted, lastRet, curves, runs

refVars == <<Voc, VocFirst, Isc, Mmpp, Vmpp, Impp, Pmax>>
smuVars == <<output, setpoint, smuILimit, nplc, smuLog, clock>>
runVars == <<pixels, callPixels, i_limit, duration, extra, snaith_mode, params,
             start_is_dict, ssvocs, data, m, deltas, next_voltages, run_time,
             soak_t0, spos, iter, q, delivered, from_launch, measured>>
dscVars == <<dscChannels, dscIdx, dscRet>>
histVars == <<evicted, lastRet, curves, runs>>

\* everything but the perturb-and-observe tracker
coreVars == <<refVars, abort, absolute_current_limit, t0, voltage_lock, mqttc, events,
              smuVars, pc, err, runVars, dscVars, histVars>>

vars == <<coreVars, dumb, other>>

(***************************************************************************)
(* The SMU driver interface consumed by the tracker: enable_output,        *)
(* configure_dc, measure and the nplc property.  Every call is appended to *)
(* smuLog, which holds the calls of the current step in order.             *)
(***************************************************************************)
LogEnable(on, chans) ==
    [op |-> "enable_output", on |-> on, chans |-> chans, values |-> EmptyDict]
LogConfigure(values) ==
    [op |-> "configure_dc", on |-> FALSE, chans |-> DOMAIN values, values |-> values]
LogMeasure(chans) ==
    [op |-> "measure", on |-> FALSE, chans |-> chans, values |-> EmptyDict]
LogNplc == [op |-> "nplc", on |-> FALSE, chans |-> {}, values |-> EmptyDict]

\* the output state after enable_output(on, chans)
EnableOutput(out, on, chans) == [c \in Channels |-> IF c \in chans THEN on ELSE out[c]]

\* the setpoints after configure_dc(values, "v")
ConfigureDc(sp, values) == [c \in Channels |-> IF c \in DOMAIN values THEN values[c] ELSE sp[c]]

\* What the SMU can answer to one measure(chans, "dc") call: a dict with one
\* record per requested channel.  A channel whose output is enabled reads its
\* setpoint plus an offset from P.offsets, and a current from P.ivals; a channel
\* whose output is disabled reads an open-circuit voltage from P.hiz, no
\* current and status 0.  The call takes d seconds, d in P.steps.
MeasureReplies(P, chans, out, sp, now) ==
    { [c \in chans |->
          IF out[c]
          THEN [v |-> sp[c] + off, i |-> iv, t |-> now + d, status |-> st[c]]
          ELSE [v |-> hz, i |-> 0, t |-> now + d, status |-> 0]] :
        off \in P.offsets, iv \in P.ivals, hz \in P.hiz,
        d \in {x \in P.steps : now + x <= MaxClock},
        st \in [chans -> P.statuses] }

\* the time at which a measure call returns: the timestamp of its records, or
\* the time of the call when no channel was asked for
ReplyTime(reply, now) ==
    IF DOMAIN reply = {} THEN now
    ELSE LET c == CHOOSE x \in DOMAIN reply : TRUE IN reply[c].t

\* central_control_dev/mppt.py works in voltage steps of Voc / 301; the model
\* counts voltages of that tracker in such steps, so V_oc is 301
VocSteps == 301

\* the perturb-and-observe tracker before launch_tracker is called
DumbIdle ==
    [pc |-> "idle", Vmpp |-> 0, v_set |-> 0, dV |-> 1,
     highEdgeTouched |-> FALSE, lowEdgeTouched |-> FALSE, lo |-> 0, hi |-> 0,
     t0 |-> 0, clock |-> 0, run_time |-> 0, duration |-> 0, dwell_time |-> 0,
     abort |-> FALSE, requested |-> FALSE, sent |-> "none", source |-> 0]

\* lines 19-24: the six dicts are class attributes: every object that has no
\* instance attribute of the name reads and writes the one dict of the class
RefOf(voc, vocFirst, isc, mm, vmpp, impp, pmax) ==
    [Voc |-> voc, VocFirst |-> vocFirst, Isc |-> isc, Mmpp |-> mm, Vmpp |-> vmpp,
     Impp |-> impp, Pmax |-> pmax]

EmptyRef == RefOf(EmptyDict, NoTime, EmptyDict, EmptyDict, EmptyDict, EmptyDict, EmptyDict)

\* the state of the pair of objects after the construction of this one; made
\* tells whether a second object exists
OneObject(made) ==
    [made |-> made, selfOwn |-> FALSE, own |-> FALSE, ref |-> EmptyRef, calls |-> 0]

(***************************************************************************)
(* Construction (mppt.__init__) and the class-level defaults.              *)
(***************************************************************************)
InitWith(P) ==
    /\ Voc = EmptyDict /\ VocFirst = NoTime /\ Isc = EmptyDict /\ Mmpp = EmptyDict
    /\ Vmpp = EmptyDict /\ Impp = EmptyDict /\ Pmax = EmptyDict
    /\ abort = FALSE
    /\ \E acl \in P.acls : absolute_current_limit = Abs(acl)
    /\ t0 = NoTime
    /\ voltage_lock = "unset"
    /\ mqttc \in P.sinks /\ events = << >>
    /\ dumb = DumbIdle
    /\ \E pr \in P.peers : other = OneObject(pr)
    /\ output = [c \in Channels |-> FALSE]
    /\ setpoint = [c \in Channels |-> 0]
    /\ smuILimit \in P.smuLimits
    /\ nplc = 1
    /\ smuLog = << >>
    /\ clock = 0
    /\ pc = "idle" /\ err = [kind |-> "none", where |-> "none"]
    /\ pixels = << >> /\ callPixels = << >> /\ i_limit = 0 /\ duration = 0
    /\ extra = [algo |-> "gd", fields |-> << >>, NPLC |-> 0 - 1]
    /\ snaith_mode = FALSE
    /\ params = [alpha |-> DefaultAlpha, min_step |-> DefaultMinStep, NPLC |-> 0 - 1,
                 delay_ms |-> 0, max_step |-> DefaultMaxStep,
                 momentum |-> DefaultMomentum, delta_zero |-> DefaultDeltaZero]
    /\ start_is_dict = TRUE
    /\ ssvocs = EmptyDict /\ data = EmptyDict /\ m = << >>
    /\ deltas = EmptyDict /\ next_voltages = EmptyDict
    /\ run_time = 0 /\ soak_t0 = 0 /\ spos = << >> /\ iter = 0
    /\ q = << >> /\ delivered = << >> /\ from_launch = FALSE /\ measured = EmptyDict
    /\ dscChannels = << >> /\ dscIdx = 1 /\ dscRet = "idle"
    /\ evicted = {} /\ lastRet = [kind |-> "none"] /\ curves = 0 /\ runs = 0

\* neither object has instance attributes: both use the dicts of the class
SharesClassDicts == other.made /\ ~other.selfOwn /\ ~other.own

\* the reference state the second object sees
OtherRef ==
    IF SharesClassDicts THEN RefOf(Voc, VocFirst, Isc, Mmpp, Vmpp, Impp, Pmax)
    ELSE other.ref

\* lines 41-46 on this object: the assignments create instance attributes; the
\* dicts of the class keep their content for the object that still uses them
OwnAttributes ==
    IF other.made
    THEN [other EXCEPT !.selfOwn = TRUE, !.ref = OtherRef]
    ELSE other

(***************************************************************************)
(* reset                                                                   *)
(***************************************************************************)
\* a variant that leaves the abort flag as it is
ResetKeepsAbort ==
    /\ pc = "idle"
    /\ Voc' = EmptyDict /\ VocFirst' = NoTime /\ Isc' = EmptyDict /\ Mmpp' = EmptyDict
    /\ Vmpp' = EmptyDict /\ Impp' = EmptyDict /\ Pmax' = EmptyDict
    /\ abort' = abort
    /\ t0' = NoTime
    /\ smuLog' = << >>
    /\ other' = OwnAttributes
    /\ UNCHANGED <<absolute_current_limit, mqttc, dumb, voltage_lock, output, setpoint, smuILimit,
                   nplc, clock, pc, err, runVars, dscVars, histVars, events>>

Reset ==
    /\ pc = "idle"
    /\ Voc' = EmptyDict /\ VocFirst' = NoTime /\ Isc' = EmptyDict /\ Mmpp' = EmptyDict
    /\ Vmpp' = EmptyDict /\ Impp' = EmptyDict /\ Pmax' = EmptyDict
    /\ abort' = FALSE
    /\ t0' = NoTime
    /\ smuLog' = << >>
    /\ other' = OwnAttributes
    /\ UNCHANGED <<absolute_current_limit, mqttc, dumb, voltage_lock, output, setpoint, smuILimit,
                   nplc, clock, pc, err, runVars, dscVars, histVars, events>>

\* an observer thread sets the abort flag
SetAbort ==
    /\ abort = FALSE
    /\ abort' = TRUE
    /\ smuLog' = << >>
    /\ UNCHANGED <<refVars, absolute_current_limit, mqttc, dumb, other, t0, voltage_lock, output, setpoint,
                   smuILimit, nplc, clock, pc, err, runVars, dscVars, histVars, events>>

(***************************************************************************)
(* register_curve(vector, light): vector maps channels to sweeps; the      *)
(* channels are visited in ascending order and are independent.            *)
(***************************************************************************)
Replaces(stored, vector, light, ch) ==
    ch \in DOMAIN vector /\ light /\ NewPmax(stored, ch, vector[ch])

RegisterCurve(P) ==
    /\ pc = "idle"
    /\ curves < P.maxCurves
    /\ \E vector \in P.vectors, light \in BOOLEAN :
        LET rep(ch) == Replaces(Pmax, vector, light, ch)
            upd(old, val(_)) ==
                [c \in (DOMAIN old) \cup {x \in DOMAIN vector : rep(x)} |->
                    IF rep(c) THEN val(vector[c]) ELSE old[c]]
            newVocKeys == {x \in DOMAIN vector : rep(x) /\ StraddlesI(vector[x])}
            newIscKeys == {x \in DOMAIN vector : rep(x) /\ StraddlesV(vector[x])}
            mm(sw) == <<CurveVmpp(sw), CurveImpp(sw), CurveTmpp(sw)>>
        IN  /\ Vmpp' = upd(Vmpp, CurveVmpp)
            /\ Impp' = upd(Impp, CurveImpp)
            /\ Pmax' = upd(Pmax, CurvePmax)
            /\ Mmpp' = upd(Mmpp, mm)
            /\ Isc' = [c \in (DOMAIN Isc) \cup newIscKeys |->
                          IF c \in newIscKeys THEN CurveIsc(vector[c]) ELSE Isc[c]]
            /\ Voc' = [c \in (DOMAIN Voc) \cup newVocKeys |->
                          IF c \in newVocKeys THEN CurveVoc(vector[c]) ELSE Voc[c]]
            /\ VocFirst' = IF Voc = EmptyDict /\ newVocKeys # {}
                           THEN CHOOSE x \in newVocKeys : \A y \in newVocKeys : x <= y
                           ELSE VocFirst
            /\ lastRet' = [kind |-> "register_curve",
                           Pmaxs |-> [c \in DOMAIN vector |-> CurvePmax(vector[c])],
                           Vmpps |-> [c \in DOMAIN vector |-> CurveVmpp(vector[c])],
                           Impps |-> [c \in DOMAIN vector |-> CurveImpp(vector[c])],
                           maxIndexs |-> [c \in DOMAIN vector |-> CurveMaxIndex(vector[c])],
                           light |-> light, vector |-> vector]
    /\ curves' = curves + 1
    /\ smuLog' = << >>
    /\ UNCHANGED <<abort, absolute_current_limit, mqttc, dumb, other, t0, voltage_lock, output, setpoint,
                   smuILimit, nplc, clock, pc, err, runVars, dscVars, evicted, events, runs>>

\* lines 63-118 as a function of the reference state they read and write
RegisterInto(ref, vector, light) ==
    LET rep(ch) == Replaces(ref.Pmax, vector, light, ch)
        upd(old, val(_)) ==
            [c \in (DOMAIN old) \cup {x \in DOMAIN vector : rep(x)} |->
                IF rep(c) THEN val(vector[c]) ELSE old[c]]
        newVocKeys == {x \in DOMAIN vector : rep(x) /\ StraddlesI(vector[x])}
        newIscKeys == {x \in DOMAIN vector : rep(x) /\ StraddlesV(vector[x])}
        mm(sw) == <<CurveVmpp(sw), CurveImpp(sw), CurveTmpp(sw)>>
    IN  RefOf([c \in (DOMAIN ref.Voc) \cup newVocKeys |->
                  IF c \in newVocKeys THEN CurveVoc(vector[c]) ELSE ref.Voc[c]],
              IF ref.Voc = EmptyDict /\ newVocKeys # {}
              THEN CHOOSE x \in newVocKeys : \A y \in newVocKeys : x <= y
              ELSE ref.VocFirst,
              [c \in (DOMAIN ref.Isc) \cup newIscKeys |->
                  IF c \in newIscKeys THEN CurveIsc(vector[c]) ELSE ref.Isc[c]],
              upd(ref.Mmpp, mm), upd(ref.Vmpp, CurveVmpp), upd(ref.Impp, CurveImpp),
              upd(ref.Pmax, CurvePmax))

\* the second object's reference state becomes ref: the dicts of the class
\* when it has no instance attributes, its own otherwise
OtherStores(ref) ==
    IF SharesClassDicts
    THEN /\ Voc' = ref.Voc /\ VocFirst' = ref.VocFirst /\ Isc' = ref.Isc
         /\ Mmpp' = ref.Mmpp /\ Vmpp' = ref.Vmpp /\ Impp' = ref.Impp
         /\ Pmax' = ref.Pmax
         /\ other' = [other EXCEPT !.calls = @ + 1]
    ELSE /\ other' = [other EXCEPT !.calls = @ + 1, !.ref = ref]
         /\ UNCHANGED refVars

\* register_curve(vector, light) called on the second object
OtherRegisterCurve(P) ==
    /\ other.made
    /\ other.calls < MaxPeerCalls
    /\ \E vector \in P.vectors, light \in BOOLEAN :
          OtherStores(RegisterInto(OtherRef, vector, light))
    /\ UNCHANGED <<abort, absolute_current_limit, t0, voltage_lock, mqttc, events, dumb,
                   smuVars, pc, err, runVars, dscVars, histVars>>

\* reset() called on the second object (lines 41-46)
OtherReset ==
    /\ other.made
    /\ other.calls < MaxPeerCalls
    /\ other' = [other EXCEPT !.calls = @ + 1, !.own = TRUE, !.ref = EmptyRef]
    /\ UNCHANGED <<coreVars, dumb>>

(***************************************************************************)
(* launch_tracker                                                          *)
(***************************************************************************)
\* the clamp of i_limit to the absolute current limit
ClampILimit(il, acl) == IF Abs(il) > Abs(acl) THEN Abs(acl) ELSE il

\* an exception leaves the call; the instance stays as it is
Raised(kind, where) == pc' = "raised" /\ err' = [kind |-> kind, where |-> where]

NoError == [kind |-> "none", where |-> "none"]

\* when a call returns or raises its local variables are gone (the pixels
\* dict belongs to the caller and stays)
LocalsGone ==
    /\ data' = EmptyDict /\ m' = << >> /\ deltas' = EmptyDict
    /\ next_voltages' = EmptyDict /\ run_time' = 0 /\ soak_t0' = 0
    /\ spos' = << >> /\ iter' = 0 /\ q' = << >>
    /\ dscChannels' = << >> /\ dscIdx' = 1 /\ dscRet' = "idle"
    /\ measured' = EmptyDict

\* lines 140-149: start the timer, clamp i_limit, write nplc, list the channels
LaunchTracker(P) ==
    /\ pc = "idle"
    /\ runs < P.maxRuns
    /\ \E px \in P.pixelsIn, dur \in P.durations, il \in P.ilimits,
          ex \in P.extras, np \in P.nplcs :
        /\ pixels' = px /\ callPixels' = px
        /\ duration' = dur
        /\ i_limit' = ClampILimit(il, absolute_current_limit)
        /\ extra' = [algo |-> ex.algo, fields |-> ex.fields, NPLC |-> np]
        /\ nplc' = IF np # 0 - 1 THEN np ELSE nplc
        /\ smuLog' = IF np # 0 - 1 THEN <<LogNplc>> ELSE << >>
    /\ t0' = clock
    /\ runs' = runs + 1
    /\ evicted' = {} /\ events' = << >>
    /\ err' = NoError
    /\ from_launch' = TRUE /\ measured' = EmptyDict
    /\ q' = << >> /\ m' = << >> /\ data' = EmptyDict /\ delivered' = << >>
    /\ deltas' = EmptyDict /\ next_voltages' = EmptyDict /\ ssvocs' = EmptyDict
    /\ iter' = 0 /\ spos' = << >> /\ run_time' = 0 /\ soak_t0' = 0
    /\ lastRet' = [kind |-> "none"]
    /\ pc' = "lt_voc"
    /\ UNCHANGED <<refVars, abort, absolute_current_limit, mqttc, dumb, other, voltage_lock, output,
                   setpoint, smuILimit, clock, snaith_mode, params, start_is_dict,
                   dscVars, curves>>

\* lines 151-162: the high-impedance V_oc measurement, taken when no V_oc is stored
ProbeVoc(P) ==
    /\ pc = "lt_voc"
    /\ IF Voc = EmptyDict
       THEN \E reply \in MeasureReplies(P, Keys(pixels), EnableOutput(output, FALSE, Keys(pixels)),
                                        setpoint, clock) :
              /\ output' = EnableOutput(output, FALSE, Keys(pixels))
              /\ smuLog' = <<LogEnable(FALSE, Keys(pixels)), LogMeasure(Keys(pixels))>>
              /\ ssvocs' = reply
              /\ clock' = ReplyTime(reply, clock)
              /\ Voc' = [c \in DOMAIN reply |-> reply[c].v]
              /\ VocFirst' = IF DOMAIN reply = {} THEN VocFirst
                             ELSE CHOOSE x \in DOMAIN reply : \A y \in DOMAIN reply : x <= y
       ELSE /\ ssvocs' = EmptyDict
            /\ smuLog' = << >>
            /\ UNCHANGED <<output, clock, Voc, VocFirst>>
    /\ pc' = "lt_seed"
    /\ UNCHANGED <<Isc, Mmpp, Vmpp, Impp, Pmax, abort, absolute_current_limit, mqttc, dumb, other, t0,
                   voltage_lock, setpoint, smuILimit, nplc, err, pixels, callPixels,
                   i_limit, duration, extra, snaith_mode, params, start_is_dict, data, m,
                   deltas, next_voltages, run_time, soak_t0, spos, iter, q, delivered,
                   from_launch, measured, dscVars, histVars, events>>

\* 0.7 * voc
SeedVmpp(voc) == TruncDiv(7 * voc, 10)

\* lines 164-171: V_mpp is seeded from V_oc when no V_mpp is stored at all
SeededVmpp(vmpp, voc) ==
    IF vmpp = EmptyDict THEN [c \in DOMAIN voc |-> SeedVmpp(voc[c])] ELSE vmpp

\* lines 184-187: the quadrant lock follows the sign of the first stored V_oc
LockFor(voc) == IF voc >= 0 THEN "positive" ELSE "negative"

\* a variant that switches the outputs on before it writes the setpoints
SeedAndConfigureEnableFirst ==
    /\ pc = "lt_seed"
    /\ Vmpp' = SeededVmpp(Vmpp, Voc)
    /\ setpoint' = ConfigureDc(setpoint, Vmpp')
    /\ output' = EnableOutput(output, TRUE, Keys(pixels))
    /\ smuLog' = <<LogEnable(TRUE, Keys(pixels)), LogConfigure(Vmpp')>>
    /\ IF Voc = EmptyDict
       THEN Raised("IndexError", "launch_tracker") /\ UNCHANGED voltage_lock
       ELSE /\ voltage_lock' = LockFor(Voc[VocFirst])
            /\ pc' = "lt_dispatch"
            /\ UNCHANGED err
    /\ UNCHANGED <<Voc, VocFirst, Isc, Mmpp, Impp, Pmax, abort, absolute_current_limit, mqttc, dumb, other,
                   t0, smuILimit, nplc, clock, runVars, dscVars, histVars, events>>

\* lines 164-187: seed V_mpp, configure the SMU with every stored V_mpp,
\* enable the outputs of the run's channels, set the quadrant lock
SeedAndConfigure ==
    /\ pc = "lt_seed"
    /\ Vmpp' = SeededVmpp(Vmpp, Voc)
    /\ setpoint' = ConfigureDc(setpoint, Vmpp')
    /\ output' = EnableOutput(output, TRUE, Keys(pixels))
    /\ smuLog' = <<LogConfigure(Vmpp'), LogEnable(TRUE, Keys(pixels))>>
    /\ IF Voc = EmptyDict
       THEN Raised("IndexError", "launch_tracker") /\ UNCHANGED voltage_lock
       ELSE /\ voltage_lock' = LockFor(Voc[VocFirst])
            /\ pc' = "lt_dispatch"
            /\ UNCHANGED err
    /\ UNCHANGED <<Voc, VocFirst, Isc, Mmpp, Impp, Pmax, abort, absolute_current_limit, mqttc, dumb, other,
                   t0, smuILimit, nplc, clock, runVars, dscVars, histVars, events>>

\* the keyword arguments gradient_descent receives from launch_tracker: with
\* no parameters in the string the defaults and launch_tracker's own NPLC
ParamsOf(fields, NPLC) ==
    IF Len(fields) = 0
    THEN [alpha |-> DefaultAlpha, min_step |-> DefaultMinStep, NPLC |-> NPLC,
          delay_ms |-> 0, max_step |-> DefaultMaxStep, momentum |-> DefaultMomentum,
          delta_zero |-> DefaultDeltaZero]
    ELSE [alpha |-> fields[1], min_step |-> fields[2], NPLC |-> fields[3],
          delay_ms |-> fields[4], max_step |-> fields[5], momentum |-> fields[6],
          delta_zero |-> fields[7]]

\* a variant that hands every algorithm name but basic to gradient descent
DispatchAnyName ==
    /\ pc = "lt_dispatch"
    /\ smuLog' = << >>
    /\ IF extra.algo # "basic"
       THEN IF Len(extra.fields) # 0 /\ Len(extra.fields) # 7
            THEN /\ Raised("ValueError", "launch_tracker")
                 /\ UNCHANGED <<snaith_mode, params, start_is_dict, lastRet>>
            ELSE /\ snaith_mode' = (extra.algo = "snaith")
                 /\ params' = ParamsOf(extra.fields, extra.NPLC)
                 /\ start_is_dict' = TRUE
                 /\ pc' = "gd_enter"
                 /\ UNCHANGED <<err, lastRet>>
       ELSE /\ lastRet' = [kind |-> "launch_tracker", m |-> << >>, ssvocs |-> ssvocs,
                           warned |-> TRUE]
            /\ pc' = "idle"
            /\ UNCHANGED <<err, snaith_mode, params, start_is_dict>>
    /\ UNCHANGED <<refVars, abort, absolute_current_limit, mqttc, dumb, other, t0, voltage_lock, output,
                   setpoint, smuILimit, nplc, clock, pixels, callPixels, i_limit,
                   duration, extra, ssvocs, data, m, deltas, next_voltages, run_time,
                   soak_t0, spos, iter, q, delivered, from_launch, measured, dscVars, evicted, events,
                   curves, runs>>

\* lines 190-243: parse the algorithm string and dispatch
Dispatch ==
    /\ pc = "lt_dispatch"
    /\ smuLog' = << >>
    /\ IF extra.algo \in {"gd", "snaith"}
       THEN IF Len(extra.fields) # 0 /\ Len(extra.fields) # 7
            THEN /\ Raised("ValueError", "launch_tracker")
                 /\ UNCHANGED <<snaith_mode, params, start_is_dict, lastRet>>
            ELSE /\ snaith_mode' = (extra.algo = "snaith")
                 /\ params' = ParamsOf(extra.fields, extra.NPLC)
                 /\ start_is_dict' = TRUE
                 /\ pc' = "gd_enter"
                 /\ UNCHANGED <<err, lastRet>>
       ELSE /\ lastRet' = [kind |-> "launch_tracker", m |-> << >>, ssvocs |-> ssvocs,
                           warned |-> TRUE]
            /\ pc' = "idle"
            /\ UNCHANGED <<err, snaith_mode, params, start_is_dict>>
    /\ UNCHANGED <<refVars, abort, absolute_current_limit, mqttc, dumb, other, t0, voltage_lock, output,
                   setpoint, smuILimit, nplc, clock, pixels, callPixels, i_limit,
                   duration, extra, ssvocs, data, m, deltas, next_voltages, run_time,
                   soak_t0, spos, iter, q, delivered, from_launch, measured, dscVars, evicted, events,
                   curves, runs>>

\* the caller catches the exception; the instance can be used again
Recover ==
    /\ pc = "raised"
    /\ pc' = "idle"
    /\ smuLog' = << >>
    /\ lastRet' = [kind |-> "raised"]
    /\ LocalsGone
    /\ UNCHANGED <<refVars, abort, absolute_current_limit, mqttc, dumb, other, t0, voltage_lock, output,
                   setpoint, smuILimit, nplc, clock, err, pixels, callPixels, i_limit,
                   duration, extra, snaith_mode, params, start_is_dict, ssvocs, delivered,
                   from_launch, evicted, events, curves, runs>>

(***************************************************************************)
(* gradient_descent                                                        *)
(***************************************************************************)
\* gradient_descent called directly, with a number as start_voltage and the
\* default keyword arguments
GradientDescent(P) ==
    /\ pc = "idle"
    /\ runs < P.maxRuns
    /\ \E px \in P.pixelsIn, dur \in P.durations, sn \in BOOLEAN :
        /\ pixels' = px /\ callPixels' = px
        /\ duration' = dur
        /\ snaith_mode' = sn
    /\ params' = ParamsOf(<< >>, 0 - 1)
    /\ start_is_dict' = FALSE
    /\ from_launch' = FALSE /\ measured' = EmptyDict
    /\ runs' = runs + 1
    /\ evicted' = {} /\ events' = << >>
    /\ err' = NoError
    /\ q' = << >> /\ m' = << >> /\ data' = EmptyDict /\ delivered' = << >>
    /\ deltas' = EmptyDict /\ next_voltages' = EmptyDict /\ ssvocs' = EmptyDict
    /\ iter' = 0 /\ spos' = << >> /\ run_time' = 0 /\ soak_t0' = 0
    /\ lastRet' = [kind |-> "none"]
    /\ smuLog' = << >>
    /\ pc' = "gd_enter"
    /\ UNCHANGED <<refVars, abort, absolute_current_limit, mqttc, dumb, other, t0, voltage_lock, output,
                   setpoint, smuILimit, nplc, clock, i_limit, extra, dscVars, curves>>

\* lines 271-317 up to the pre-soak loop: nplc, the queues, the snaith set-up
GdEnter ==
    /\ pc = "gd_enter"
    /\ nplc' = IF params.NPLC # 0 - 1 THEN params.NPLC ELSE nplc
    /\ smuLog' = IF params.NPLC # 0 - 1 THEN <<LogNplc>> ELSE << >>
    /\ q' = << >>
    /\ m' = << >>
    /\ IF snaith_mode
       THEN /\ duration' = duration - snaith_pre_soak_t - snaith_post_soak_t
            /\ IF start_is_dict
               THEN \* f"{start_voltage:0.2f}" of a dict
                    Raised("TypeError", "gradient_descent") /\ UNCHANGED <<spos, soak_t0>>
               ELSE /\ spos' = pixels
                    /\ soak_t0' = clock
                    /\ pc' = "gd_presoak"
                    /\ UNCHANGED err
       ELSE /\ pc' = "gd_boot"
            /\ UNCHANGED <<duration, spos, soak_t0, err>>
    /\ UNCHANGED <<refVars, abort, absolute_current_limit, mqttc, dumb, other, t0, voltage_lock, output,
                   setpoint, smuILimit, clock, pixels, callPixels, i_limit, extra,
                   snaith_mode, params, start_is_dict, ssvocs, data, deltas,
                   next_voltages, run_time, iter, delivered, from_launch, measured, dscVars,
                   histVars, events>>

\* a variant that measures the channels the call started with
MeasureAndDetectStale(P, ret, sp, log) ==
    \E reply \in MeasureReplies(P, Keys(callPixels), output, sp, clock) :
        /\ data' = reply
        /\ measured' = reply
        /\ clock' = ReplyTime(reply, clock)
        /\ smuLog' = log \o <<LogMeasure(Keys(callPixels))>>
        /\ dscChannels' = pixels
        /\ dscIdx' = 1
        /\ dscRet' = ret
        /\ pc' = "dsc"

\* data = self.sm.measure(list(pixels.keys()), "dc") followed by the call of
\* detect_short_circuits(data, pixels), which returns to ret
MeasureAndDetect(P, ret, sp, log) ==
    \E reply \in MeasureReplies(P, Keys(pixels), output, sp, clock) :
        /\ data' = reply
        /\ measured' = reply
        /\ clock' = ReplyTime(reply, clock)
        /\ smuLog' = log \o <<LogMeasure(Keys(pixels))>>
        /\ dscChannels' = pixels
        /\ dscIdx' = 1
        /\ dscRet' = ret
        /\ pc' = "dsc"

\* lines 308-317: one pass of the snaith pre-soak loop head
GdPreSoak(P) ==
    /\ pc = "gd_presoak"
    /\ IF (clock - soak_t0 < snaith_pre_soak_t) /\ (Len(pixels) > 0)
       THEN /\ MeasureAndDetect(P, "gd_presoak_cb", setpoint, << >>)
            /\ UNCHANGED q
       ELSE /\ q' = q \o spos
            /\ pc' = "gd_boot"
            /\ smuLog' = << >>
            /\ UNCHANGED <<data, measured, clock, dscVars>>
    /\ UNCHANGED <<refVars, abort, absolute_current_limit, mqttc, dumb, other, t0, voltage_lock, output,
                   setpoint, smuILimit, nplc, err, pixels, callPixels, i_limit, duration,
                   extra, snaith_mode, params, start_is_dict, ssvocs, m, deltas,
                   next_voltages, run_time, soak_t0, spos, iter, delivered, from_launch,
                   histVars, events>>

\* lines 312-315 and 458-462: the batch goes to the callback and into spos
SoakCallback(back) ==
    /\ delivered' = data
    /\ pc' = back
    /\ smuLog' = << >>
    /\ UNCHANGED <<refVars, abort, absolute_current_limit, mqttc, dumb, other, t0, voltage_lock, output,
                   setpoint, smuILimit, nplc, clock, err, pixels, callPixels, i_limit,
                   duration, extra, snaith_mode, params, start_is_dict, ssvocs, data, m,
                   deltas, next_voltages, run_time, soak_t0, spos, iter, q, from_launch, measured,
                   dscVars, histVars, events>>

GdPreSoakCb ==
    /\ pc = "gd_presoak_cb"
    /\ SoakCallback("gd_presoak")

\* lines 329-330: the bootstrap measurement
GdBoot(P) ==
    /\ pc = "gd_boot"
    /\ MeasureAndDetect(P, "gd_boot_cb", setpoint, << >>)
    /\ UNCHANGED <<refVars, abort, absolute_current_limit, mqttc, dumb, other, t0, voltage_lock, output,
                   setpoint, smuILimit, nplc, err, pixels, callPixels, i_limit, duration,
                   extra, snaith_mode, params, start_is_dict, ssvocs, m, deltas,
                   next_voltages, run_time, soak_t0, spos, iter, q, delivered,
                   from_launch, histVars, events>>

\* lines 347-350 and 432-435: the quadrant lock applied to a new setpoint
QuadrantLock(lock, new_v) ==
    IF lock = "positive" /\ new_v < 0 THEN Epsilon
    ELSE IF lock = "negative" /\ new_v > 0 THEN 0 - Epsilon
    ELSE new_v

\* lines 331-351: callback, first entry of m, run time, first deltas and setpoints
GdBootCb ==
    /\ pc = "gd_boot_cb"
    /\ delivered' = data
    /\ m' = <<data>>
    /\ smuLog' = << >>
    /\ IF t0 = NoTime
       THEN Raised("TypeError", "gradient_descent") /\ UNCHANGED <<run_time, deltas, next_voltages>>
       ELSE /\ run_time' = clock - t0
            /\ deltas' = [ch \in Keys(pixels) |-> params.delta_zero]
            /\ IF \E ch \in Keys(pixels) : ch \notin DOMAIN Vmpp
               THEN Raised("KeyError", "gradient_descent") /\ UNCHANGED next_voltages
               ELSE IF voltage_lock = "unset" /\ pixels # << >>
               THEN Raised("AttributeError", "gradient_descent") /\ UNCHANGED next_voltages
               ELSE /\ next_voltages' = [ch \in Keys(pixels) |->
                            QuadrantLock(voltage_lock, Vmpp[ch] + params.delta_zero)]
                    /\ pc' = "gd_loop"
                    /\ UNCHANGED err
    /\ UNCHANGED <<refVars, abort, absolute_current_limit, mqttc, dumb, other, t0, voltage_lock, output,
                   setpoint, smuILimit, nplc, clock, pixels, callPixels, i_limit,
                   duration, extra, snaith_mode, params, start_is_dict, ssvocs, data,
                   soak_t0, spos, iter, q, from_launch, measured, dscVars, histVars, events>>

\* a variant whose loop test leaves out the elapsed time
GdLoopNoClock(P) ==
    /\ pc = "gd_loop"
    /\ IF (~abort) /\ (Len(pixels) > 0)
       THEN /\ iter < MaxIter
            /\ iter' = iter + 1
            /\ setpoint' = ConfigureDc(setpoint, next_voltages)
            /\ MeasureAndDetect(P, "gd_loop_cb", setpoint', <<LogConfigure(next_voltages)>>)
            /\ UNCHANGED <<spos, soak_t0>>
       ELSE /\ IF snaith_mode
               THEN spos' = pixels /\ soak_t0' = clock /\ pc' = "gd_postsoak"
               ELSE pc' = "gd_final" /\ UNCHANGED <<spos, soak_t0>>
            /\ smuLog' = << >>
            /\ UNCHANGED <<iter, setpoint, data, measured, clock, dscVars>>
    /\ UNCHANGED <<refVars, abort, absolute_current_limit, mqttc, dumb, other, t0, voltage_lock, output,
                   smuILimit, nplc, err, pixels, callPixels, i_limit, duration, extra,
                   snaith_mode, params, start_is_dict, ssvocs, m, deltas, next_voltages,
                   run_time, q, delivered, from_launch, histVars, events>>

\* lines 389-399 and 441-454: the head of the mppt loop
GdLoop(P) ==
    /\ pc = "gd_loop"
    /\ IF (~abort) /\ (run_time < duration) /\ (Len(pixels) > 0)
       THEN /\ iter < MaxIter
            /\ iter' = iter + 1
            /\ setpoint' = ConfigureDc(setpoint, next_voltages)
            /\ MeasureAndDetect(P, "gd_loop_cb", setpoint', <<LogConfigure(next_voltages)>>)
            /\ UNCHANGED <<spos, soak_t0>>
       ELSE /\ IF snaith_mode
               THEN spos' = pixels /\ soak_t0' = clock /\ pc' = "gd_postsoak"
               ELSE pc' = "gd_final" /\ UNCHANGED <<spos, soak_t0>>
            /\ smuLog' = << >>
            /\ UNCHANGED <<iter, setpoint, data, measured, clock, dscVars>>
    /\ UNCHANGED <<refVars, abort, absolute_current_limit, mqttc, dumb, other, t0, voltage_lock, output,
                   smuILimit, nplc, err, pixels, callPixels, i_limit, duration, extra,
                   snaith_mode, params, start_is_dict, ssvocs, m, deltas, next_voltages,
                   run_time, q, delivered, from_launch, histVars, events>>

\* sign(num) of gradient_descent
Sign(num) == IF num < 0 THEN 0 - 1 ELSE 1

\* objective(var)
Objective(r) == r.v * r.i

\* compute_grad raises ZeroDivisionError for a channel whose two records have
\* different voltages and the same timestamp
GradDivZero(r0, r1) == r0.v # r1.v /\ r0.t = r1.t

\* a variant that takes no step when the two voltages are equal
MomentumStepStill(r0, r1, prm, delta, some_sign) ==
    IF r0.v = r1.v
    THEN 0
    ELSE LET dv == r0.v - r1.v
             dt == r0.t - r1.t
             df == Objective(r0) - Objective(r1)
         IN  TruncDiv((0 - (prm.alpha * df)) * MomentumDen + prm.momentum * delta * dv * dt,
                      dv * dt * MomentumDen)

\* lines 408-418: the step of one channel from its two most recent records
\* r0 (newest) and r1; the quotient is rounded toward zero
MomentumStep(r0, r1, prm, delta, some_sign) ==
    IF r0.v = r1.v
    THEN IF prm.min_step = 0 THEN some_sign * Epsilon ELSE some_sign * prm.min_step
    ELSE LET dv == r0.v - r1.v
             dt == r0.t - r1.t
             df == Objective(r0) - Objective(r1)
         IN  TruncDiv((0 - (prm.alpha * df)) * MomentumDen + prm.momentum * delta * dv * dt,
                      dv * dt * MomentumDen)

\* a variant without the maximum step
LimitStepNoMax(delta, prm, some_sign) ==
    IF Abs(delta) < prm.min_step /\ prm.min_step > 0 THEN some_sign * prm.min_step
    ELSE delta

\* lines 421-427: the step size limits
LimitStep(delta, prm, some_sign) ==
    IF Abs(delta) < prm.min_step /\ prm.min_step > 0 THEN some_sign * prm.min_step
    ELSE IF Abs(delta) > prm.max_step THEN Sign(delta) * prm.max_step
    ELSE delta

\* lines 407-427: the steps of all channels after the measurement data, with
\* some_sign the value random.choice([-1, 1]) gave at line 391
StepDeltas(some_sign) ==
    [ch \in DOMAIN deltas |->
        LimitStep(IF ch \in DOMAIN data
                  THEN MomentumStep(data[ch], m[1][ch], params, deltas[ch], some_sign)
                  ELSE deltas[ch],
                  params, some_sign)]

\* lines 430-436: the next setpoints of the channels still tracked
StepVoltages(some_sign) ==
    [ch \in DOMAIN next_voltages |->
        IF ch \in Keys(pixels)
        THEN QuadrantLock(voltage_lock, next_voltages[ch] + StepDeltas(some_sign)[ch])
        ELSE next_voltages[ch]]

\* lines 400-439: the rest of one iteration of the mppt loop
GdLoopCb ==
    /\ pc = "gd_loop_cb"
    /\ m' = <<data, m[1]>>
    /\ delivered' = data
    /\ smuLog' = << >>
    /\ IF \E ch \in DOMAIN data : GradDivZero(data[ch], m[1][ch])
       THEN Raised("ZeroDivisionError", "compute_grad") /\ UNCHANGED <<deltas, next_voltages, run_time>>
       ELSE \E some_sign \in {0 - 1, 1} :
             /\ deltas' = StepDeltas(some_sign)
             /\ next_voltages' = StepVoltages(some_sign)
             /\ run_time' = clock - t0
             /\ pc' = "gd_loop"
             /\ UNCHANGED err
    /\ UNCHANGED <<refVars, abort, absolute_current_limit, mqttc, dumb, other, t0, voltage_lock, output,
                   setpoint, smuILimit, nplc, clock, pixels, callPixels, i_limit,
                   duration, extra, snaith_mode, params, start_is_dict, ssvocs, data,
                   soak_t0, spos, iter, q, from_launch, measured, dscVars, histVars, events>>

\* lines 455-464: one pass of the snaith post-soak loop head
GdPostSoak(P) ==
    /\ pc = "gd_postsoak"
    /\ IF (clock - soak_t0 < snaith_post_soak_t) /\ (Len(pixels) > 0)
       THEN /\ MeasureAndDetect(P, "gd_postsoak_cb", setpoint, << >>)
            /\ UNCHANGED q
       ELSE /\ q' = q \o spos
            /\ pc' = "gd_final"
            /\ smuLog' = << >>
            /\ UNCHANGED <<data, measured, clock, dscVars>>
    /\ UNCHANGED <<refVars, abort, absolute_current_limit, mqttc, dumb, other, t0, voltage_lock, output,
                   setpoint, smuILimit, nplc, err, pixels, callPixels, i_limit, duration,
                   extra, snaith_mode, params, start_is_dict, ssvocs, m, deltas,
                   next_voltages, run_time, soak_t0, spos, iter, delivered, from_launch,
                   histVars, events>>

GdPostSoakCb ==
    /\ pc = "gd_postsoak_cb"
    /\ SoakCallback("gd_postsoak")

\* lines 466-473 and 243: the most recent readings become V_mpp and I_mpp,
\* the queue is returned
GdFinal ==
    /\ pc = "gd_final"
    /\ Vmpp' = [c \in (DOMAIN Vmpp) \cup (DOMAIN m[1]) |->
                   IF c \in DOMAIN m[1] THEN m[1][c].v ELSE Vmpp[c]]
    /\ Impp' = [c \in (DOMAIN Impp) \cup (DOMAIN m[1]) |->
                   IF c \in DOMAIN m[1] THEN m[1][c].i ELSE Impp[c]]
    /\ lastRet' = IF from_launch
                  THEN [kind |-> "launch_tracker", m |-> <<q>>, ssvocs |-> ssvocs,
                        warned |-> FALSE]
                  ELSE [kind |-> "gradient_descent", q |-> q]
    /\ pc' = "idle"
    /\ smuLog' = << >>
    /\ LocalsGone
    /\ UNCHANGED <<Voc, VocFirst, Isc, Mmpp, Pmax, abort, absolute_current_limit, mqttc, dumb, other, t0,
                   voltage_lock, output, setpoint, smuILimit, nplc, clock, err, pixels,
                   callPixels, i_limit, duration, extra, snaith_mode, params,
                   start_is_dict, ssvocs, delivered, from_launch, evicted, events, curves, runs>>

(***************************************************************************)
(* detect_short_circuits(data, pixels), one channel of its loop per step   *)
(***************************************************************************)
\* lines 713-716: the other channel on the same SMU board
OtherCh(ch) == IF ch % 2 = 0 THEN ch + 1 ELSE ch - 1

\* line 720 reads the record under this key from the reply of measure(other_ch)
ProbeKey(ch, other_ch) == ch

\* line 753: the level of a warning event
WARNING_LEVEL == 30

\* lines 688-691 and 753: the payload of the warning raised while channel ch is
\* visited; its message names the device_label of pixels[ch]
Payload(ch) == [level |-> WARNING_LEVEL, label |-> ch]

\* lines 752-756: the payload goes to topic measurement/log of the sink when
\* one is attached
Warned(ch) ==
    IF mqttc THEN Append(events, [topic |-> "measurement/log", payload |-> Payload(ch)])
    ELSE events

\* a variant that leaves the channel's record in the batch
SoftEvictKeepsData(ch) ==
    /\ output' = EnableOutput(output, FALSE, {ch})
    /\ smuLog' = <<LogEnable(FALSE, {ch})>>
    /\ pixels' = PopKey(pixels, ch)
    /\ data' = data
    /\ evicted' = evicted \cup {ch}
    /\ events' = Warned(ch)
    /\ dscIdx' = dscIdx + 1
    /\ UNCHANGED <<pc, err, clock>>

\* a variant that tells the sink nothing
SoftEvictSilent(ch) ==
    /\ output' = EnableOutput(output, FALSE, {ch})
    /\ smuLog' = <<LogEnable(FALSE, {ch})>>
    /\ pixels' = PopKey(pixels, ch)
    /\ data' = DropKey(data, ch)
    /\ evicted' = evicted \cup {ch}
    /\ events' = events
    /\ dscIdx' = dscIdx + 1
    /\ UNCHANGED <<pc, err, clock>>

\* a variant that pops the channel from a copy of the caller's mapping
SoftEvictFromCopy(ch) ==
    /\ output' = EnableOutput(output, FALSE, {ch})
    /\ smuLog' = <<LogEnable(FALSE, {ch})>>
    /\ pixels' = PopKey(callPixels, ch)
    /\ data' = DropKey(data, ch)
    /\ evicted' = evicted \cup {ch}
    /\ events' = Warned(ch)
    /\ dscIdx' = dscIdx + 1
    /\ UNCHANGED <<pc, err, clock>>

\* a variant that removes the channel and leaves its output on
SoftEvictOutputOn(ch) ==
    /\ output' = output
    /\ smuLog' = << >>
    /\ pixels' = PopKey(pixels, ch)
    /\ data' = DropKey(data, ch)
    /\ evicted' = evicted \cup {ch}
    /\ events' = Warned(ch)
    /\ dscIdx' = dscIdx + 1
    /\ UNCHANGED <<pc, err, clock>>

\* lines 698-704: the channel whose current exceeded the SMU threshold
SoftEvict(ch) ==
    /\ output' = EnableOutput(output, FALSE, {ch})
    /\ smuLog' = <<LogEnable(FALSE, {ch})>>
    /\ pixels' = PopKey(pixels, ch)
    /\ data' = DropKey(data, ch)
    /\ evicted' = evicted \cup {ch}
    /\ events' = Warned(ch)
    /\ dscIdx' = dscIdx + 1
    /\ UNCHANGED <<pc, err, clock>>

\* lines 711-749: an overcurrent on the board input
Trip(P, ch) ==
    LET other_ch == OtherCh(ch)
        out1 == EnableOutput(output, FALSE, {ch})
        log1 == <<LogEnable(FALSE, {ch}), LogMeasure({other_ch})>>
    IN  \E r1 \in MeasureReplies(P, {other_ch}, out1, setpoint, clock) :
          LET t1 == ReplyTime(r1, clock) IN
          IF ProbeKey(ch, other_ch) \notin DOMAIN r1
          THEN /\ Raised("KeyError", "detect_short_circuits")
               /\ output' = out1
               /\ smuLog' = log1
               /\ clock' = t1
               /\ UNCHANGED <<pixels, data, evicted, events, dscIdx>>
          ELSE IF r1[ProbeKey(ch, other_ch)].status = OVERCURRENT_TRIP
          THEN LET out3 == EnableOutput(EnableOutput(out1, TRUE, {ch}), FALSE, {other_ch})
                   log3 == log1 \o <<LogEnable(TRUE, {ch}), LogEnable(FALSE, {other_ch}),
                                     LogMeasure({ch})>>
               IN  \E r2 \in MeasureReplies(P, {ch}, out3, setpoint, t1) :
                     /\ clock' = ReplyTime(r2, t1)
                     /\ IF r2[ch].status = OVERCURRENT_TRIP
                        THEN /\ output' = EnableOutput(out3, FALSE, {ch})
                             /\ smuLog' = log3 \o <<LogEnable(FALSE, {ch})>>
                             /\ pixels' = PopKey(PopKey(pixels, other_ch), ch)
                             /\ data' = DropKey(DropKey(data, other_ch), ch)
                             /\ evicted' = evicted \cup {other_ch, ch}
                        ELSE /\ output' = out3
                             /\ smuLog' = log3
                             /\ pixels' = PopKey(pixels, other_ch)
                             /\ data' = DropKey(data, other_ch)
                             /\ evicted' = evicted \cup {other_ch}
                     /\ events' = Warned(ch)
                     /\ dscIdx' = dscIdx + 1
                     /\ UNCHANGED <<pc, err>>
          ELSE /\ output' = out1
               /\ smuLog' = log1
               /\ clock' = t1
               /\ pixels' = PopKey(pixels, ch)
               /\ data' = DropKey(data, ch)
               /\ evicted' = evicted \cup {ch}
               /\ events' = Warned(ch)
               /\ dscIdx' = dscIdx + 1
               /\ UNCHANGED <<pc, err>>

\* lines 687-758: the loop body for the next channel of the snapshot
DscStep(P) ==
    /\ pc = "dsc"
    /\ dscIdx <= Len(dscChannels)
    /\ LET ch == dscChannels[dscIdx] IN
        IF ch \notin Keys(pixels) \/ ch \notin DOMAIN data
        THEN \* pixels[ch]['device_label'] or data[ch] of a channel already removed
             /\ Raised("KeyError", "detect_short_circuits")
             /\ smuLog' = << >>
             /\ UNCHANGED <<output, clock, pixels, data, evicted, events, dscIdx>>
        ELSE IF data[ch].status = CURRENT_OVER_THRESHOLD
        THEN SoftEvict(ch)
        ELSE IF data[ch].status = OVERCURRENT_TRIP
        THEN Trip(P, ch)
        ELSE /\ dscIdx' = dscIdx + 1
             /\ smuLog' = << >>
             /\ UNCHANGED <<pc, err, output, clock, pixels, data, evicted, events>>
    /\ UNCHANGED <<refVars, abort, absolute_current_limit, mqttc, dumb, other, t0, voltage_lock, setpoint,
                   smuILimit, nplc, callPixels, i_limit, duration, extra, snaith_mode,
                   params, start_is_dict, ssvocs, m, deltas, next_voltages, run_time,
                   soak_t0, spos, iter, q, delivered, from_launch, measured, dscChannels, dscRet,
                   lastRet, curves, runs>>

\* the loop has visited every channel of the snapshot: return to the caller
DscReturn ==
    /\ pc = "dsc"
    /\ dscIdx > Len(dscChannels)
    /\ pc' = dscRet
    /\ smuLog' = << >>
    /\ UNCHANGED <<refVars, abort, absolute_current_limit, mqttc, dumb, other, t0, voltage_lock, output,
                   setpoint, smuILimit, nplc, clock, err, runVars, dscVars, histVars, events>>

(***************************************************************************)
(* really_dumb_tracker of central_control_dev/mppt.py, the perturb-and-    *)
(* observe tracker: explore phases around the stored V_mpp alternate with  *)
(* dwells at the best voltage found.  Voltages are counted in steps of     *)
(* Voc / 301.                                                              *)
(***************************************************************************)
\* lines 90-94: the initial dwell of launch_tracker
InitialSoak(dur) == IF dur <= 10 THEN TruncDiv(dur * 2, 10) ELSE 10

\* lines 60-112 and 222-236: launch_tracker soaks at V_mpp and calls
\* really_dumb_tracker, which reads the clock once before its loop
DumbLaunch(P) ==
    /\ dumb.pc = "idle"
    /\ \E vm \in P.vmpps, dur \in P.durations, dw \in P.dwells :
          dumb' = [dumb EXCEPT !.pc = "outer", !.Vmpp = vm, !.v_set = vm, !.dV = 1,
                               !.lo = vm, !.hi = vm,
                               !.t0 = 0, !.clock = InitialSoak(dur),
                               !.run_time = InitialSoak(dur),
                               !.duration = dur, !.dwell_time = dw,
                               !.abort = FALSE, !.sent = "dwell", !.source = vm]
    /\ UNCHANGED <<coreVars, other>>

\* the caller asks for the run to stop; really_dumb_tracker has its own
\* local abort, which only self.measure assigns
DumbRequestStop ==
    /\ dumb.pc \in {"outer", "explore", "dwell"}
    /\ ~dumb.requested
    /\ dumb' = [dumb EXCEPT !.requested = TRUE]
    /\ UNCHANGED <<coreVars, other>>

\* lines 237-246 and 330-334: the head of the outer loop
DumbOuter ==
    /\ dumb.pc = "outer"
    /\ IF (~dumb.abort) /\ (dumb.run_time < dumb.duration)
       THEN dumb' = [dumb EXCEPT !.pc = "explore", !.v_set = dumb.Vmpp,
                                 !.highEdgeTouched = FALSE, !.lowEdgeTouched = FALSE,
                                 !.lo = dumb.Vmpp, !.hi = dumb.Vmpp]
       ELSE dumb' = [dumb EXCEPT !.pc = "done"]
    /\ UNCHANGED <<coreVars, other>>

\* lines 256-264: an angle beyond dAngleMax touches an edge and turns the walk
AfterAngle(s, e) ==
    LET a == IF (~s.highEdgeTouched) /\ e = "high"
             THEN [s EXCEPT !.highEdgeTouched = TRUE, !.dV = 0 - s.dV] ELSE s
    IN  IF (~a.lowEdgeTouched) /\ e = "low"
        THEN [a EXCEPT !.lowEdgeTouched = TRUE, !.dV = 0 - a.dV] ELSE a

\* lines 268-272 and 282-286: the high edge touched at a voltage limit
TouchHigh(s, limit) ==
    IF (~s.highEdgeTouched) /\ s.dV > 0 /\ s.v_set >= limit
    THEN [s EXCEPT !.highEdgeTouched = TRUE, !.dV = 0 - s.dV, !.v_set = s.v_set - s.dV]
    ELSE s

\* lines 274-278 and 288-292: the low edge touched at a voltage limit
TouchLow(s, limit) ==
    IF (~s.lowEdgeTouched) /\ s.dV < 0 /\ s.v_set <= limit
    THEN [s EXCEPT !.lowEdgeTouched = TRUE, !.dV = 0 - s.dV, !.v_set = s.v_set - s.dV]
    ELSE s

\* lines 266-292: the next setpoint and the tests against V_oc and 0
AfterStep(s) ==
    LET a == [s EXCEPT !.v_set = s.v_set + s.dV]
    IN  IF (a.v_set > 0 /\ a.dV > 0) \/ (a.v_set < 0 /\ a.dV < 0)
        THEN TouchLow(TouchHigh(a, VocSteps), VocSteps)
        ELSE TouchLow(TouchHigh(a, 0), 0)

\* the angle classes the device can show at voltage v: beyond dAngleMax above
\* the MPP angle ("high"), beyond it below ("low"), or within
AngleEvents(P, v) ==
    {"none"} \cup (IF v \in P.highAt THEN {"high"} ELSE {})
             \cup (IF v \in P.lowAt THEN {"low"} ELSE {})

\* lines 247-292 and 295-309: one pass of the explore loop: self.measure sets
\* the source to v_set and reads it back; after the loop the best explored
\* voltage becomes Vmpp and the clock is read
DumbExplore(P) ==
    /\ dumb.pc = "explore"
    /\ IF (~dumb.abort) /\ ~(dumb.highEdgeTouched /\ dumb.lowEdgeTouched)
       THEN /\ dumb.v_set >= 0 - MaxBelow
            /\ \E d \in {x \in P.steps : dumb.clock + x <= MaxClock},
                  e \in AngleEvents(P, dumb.v_set), zero \in BOOLEAN :
                 LET s == [dumb EXCEPT !.clock = dumb.clock + d, !.sent = "explore",
                                       !.source = dumb.v_set,
                                       !.lo = IF dumb.v_set < dumb.lo THEN dumb.v_set
                                              ELSE dumb.lo,
                                       !.hi = IF dumb.v_set > dumb.hi THEN dumb.v_set
                                              ELSE dumb.hi]
                 IN  IF dumb.v_set = 0 /\ zero
                     THEN \* i / v with a reading of exactly 0 V
                          dumb' = [s EXCEPT !.pc = "raised"]
                     ELSE /\ ~zero
                          /\ dumb' = AfterStep(AfterAngle(s, e))
       ELSE \E best \in {dumb.lo, dumb.Vmpp, dumb.hi} :
               dumb' = [dumb EXCEPT !.pc = "dwell", !.Vmpp = best,
                                    !.run_time = dumb.clock - dumb.t0]
    /\ UNCHANGED <<coreVars, other>>

\* lines 315-328: the source goes to the new Vmpp and measureUntil dwells
\* there for dwell_time seconds; the clock is read again
DumbDwell ==
    /\ dumb.pc = "dwell"
    /\ dumb.clock + dumb.dwell_time <= MaxClock
    /\ dumb' = [dumb EXCEPT !.pc = "outer", !.sent = "dwell", !.source = dumb.Vmpp,
                            !.clock = dumb.clock + dumb.dwell_time,
                            !.run_time = dumb.clock + dumb.dwell_time - dumb.t0]
    /\ UNCHANGED <<coreVars, other>>

(***************************************************************************)
(* Inputs and specifications                                               *)
(***************************************************************************)
\* sweeps registered before a run
SweepLight == << [v |-> 0, i |-> 0 - 100, t |-> 1], [v |-> 700, i |-> 0 - 80, t |-> 2],
                 [v |-> 1000, i |-> 0, t |-> 3] >>
\* a sweep that covers reverse bias only
SweepReverse == << [v |-> 0 - 500, i |-> 0 - 100, t |-> 1], [v |-> 0 - 100, i |-> 0 - 90, t |-> 2] >>

SweepHigh == << [v |-> 0, i |-> 0 - 100, t |-> 1], [v |-> 900, i |-> 0 - 90, t |-> 2],
                [v |-> 1000, i |-> 0, t |-> 3] >>

\* launch_tracker on an instance that has seen at most MaxCurves sweeps
MainInputs ==
    [ acls |-> {100},
      smuLimits |-> {40},
      maxRuns |-> MaxRuns,
      maxCurves |-> MaxCurves,
      sinks |-> {TRUE},
      peers |-> {FALSE},
      pixelsIn |-> {<<0>>, <<0, 1>>, <<1, 2>>},
      durations |-> {2},
      ilimits |-> {50},
      extras |-> {[algo |-> "gd", fields |-> << >>],
                  [algo |-> "gd", fields |-> <<10, 0, 0 - 1, 0, 1000, 1, 100>>],
                  [algo |-> "gd", fields |-> <<10, 20>>],
                  [algo |-> "snaith", fields |-> << >>],
                  [algo |-> "basic", fields |-> << >>]},
      nplcs |-> {0 - 1},
      offsets |-> {0, 0 - 50},
      ivals |-> {0 - 100, 0 - 1},
      hiz |-> {1000},
      steps |-> {0, 1},
      statuses |-> {0, 1, 2},
      vectors |-> {[c \in {0} |-> SweepLight], [c \in {0} |-> SweepReverse],
                   [c \in {0} |-> SweepHigh]} ]

Init == InitWith(MainInputs)

Next ==
    \/ Reset
    \/ SetAbort
    \/ RegisterCurve(MainInputs)
    \/ LaunchTracker(MainInputs)
    \/ ProbeVoc(MainInputs)
    \/ SeedAndConfigure
    \/ Dispatch
    \/ Recover
    \/ GdEnter
    \/ GdBoot(MainInputs)
    \/ GdBootCb
    \/ GdLoop(MainInputs)
    \/ GdLoopCb
    \/ GdFinal
    \/ DscStep(MainInputs)
    \/ DscReturn

Spec == Init /\ [][Next]_vars

\* gradient_descent called directly after a launch_tracker call, which is how
\* the snaith soaks run: launch_tracker itself passes a dict as start_voltage
DirectInputs ==
    [ acls |-> {100},
      smuLimits |-> {40},
      maxRuns |-> MaxRuns + 1,
      maxCurves |-> MaxCurves,
      sinks |-> {TRUE},
      peers |-> {FALSE},
      pixelsIn |-> {<<0, 1>>},
      durations |-> {30, 40},
      ilimits |-> {50},
      extras |-> {[algo |-> "basic", fields |-> << >>]},
      nplcs |-> {0 - 1},
      offsets |-> {0},
      ivals |-> {0 - 100},
      hiz |-> {1000},
      steps |-> {1, 15},
      statuses |-> {0, 1, 2},
      vectors |-> {[c \in {0, 1} |-> SweepLight]} ]

InitDirect == InitWith(DirectInputs)

NextDirect ==
    \/ Reset
    \/ SetAbort
    \/ RegisterCurve(DirectInputs)
    \/ LaunchTracker(DirectInputs)
    \/ ProbeVoc(DirectInputs)
    \/ SeedAndConfigure
    \/ Dispatch
    \/ Recover
    \/ GradientDescent(DirectInputs)
    \/ GdEnter
    \/ GdPreSoak(DirectInputs)
    \/ GdPreSoakCb
    \/ GdBoot(DirectInputs)
    \/ GdBootCb
    \/ GdLoop(DirectInputs)
    \/ GdLoopCb
    \/ GdPostSoak(DirectInputs)
    \/ GdPostSoakCb
    \/ GdFinal
    \/ DscStep(DirectInputs)
    \/ DscReturn

SpecDirect == InitDirect /\ [][NextDirect]_vars

\* launch_tracker with current limits of either sign, on an SMU whose
\* compliance was set by the caller before the run
LimitInputs ==
    [ acls |-> {0 - 100, 50},
      smuLimits |-> {40, 3000},
      maxRuns |-> MaxRuns,
      maxCurves |-> MaxCurves,
      sinks |-> {TRUE},
      peers |-> {FALSE},
      pixelsIn |-> {<<0>>, <<0, 1>>},
      durations |-> {2},
      ilimits |-> {0 - 500, 30, 200},
      extras |-> {[algo |-> "gd", fields |-> << >>]},
      nplcs |-> {0 - 1, 1},
      offsets |-> {0},
      ivals |-> {0 - 100},
      hiz |-> {1000},
      steps |-> {0, 1},
      statuses |-> {0, 1},
      vectors |-> {[c \in {0} |-> SweepLight]} ]

InitLimit == InitWith(LimitInputs)

NextLimit ==
    \/ LaunchTracker(LimitInputs)
    \/ ProbeVoc(LimitInputs)
    \/ SeedAndConfigure
    \/ Dispatch
    \/ Recover
    \/ GdEnter
    \/ GdBoot(LimitInputs)
    \/ GdBootCb
    \/ GdLoop(LimitInputs)
    \/ GdLoopCb
    \/ GdFinal
    \/ DscStep(LimitInputs)
    \/ DscReturn

SpecLimit == InitLimit /\ [][NextLimit]_vars

\* the positions of a run whose next step starts with a call on the SMU
AtSmuCall ==
    \/ pc = "lt_voc" /\ Voc = EmptyDict
    \/ pc \in {"lt_seed", "gd_boot"}
    \/ pc = "gd_loop" /\ (~abort) /\ (run_time < duration) /\ (Len(pixels) > 0)
    \/ /\ pc = "dsc" /\ dscIdx <= Len(dscChannels)
       /\ dscChannels[dscIdx] \in Keys(pixels) \cap DOMAIN data
       /\ data[dscChannels[dscIdx]].status \in {CURRENT_OVER_THRESHOLD, OVERCURRENT_TRIP}

\* a transport failure: the SMU call the run is about to make raises instead
\* of returning; no code of the tracker catches it
DriverFault ==
    /\ AtSmuCall
    /\ Raised("DriverFault", "smu")
    /\ smuLog' = << >>
    /\ UNCHANGED <<refVars, abort, absolute_current_limit, mqttc, dumb, other, t0, voltage_lock, output,
                   setpoint, smuILimit, nplc, clock, runVars, dscVars, histVars, events>>

\* launch_tracker on an SMU whose calls can fail
NextFault ==
    \/ NextLimit
    \/ DriverFault

SpecFault == InitLimit /\ [][NextFault]_vars

\* launch_tracker up to its dispatch, with an unknown algorithm name and a
\* malformed parameter string among the inputs, between reset and
\* register_curve calls
EntryInputs ==
    [ acls |-> {100},
      smuLimits |-> {40},
      maxRuns |-> MaxRuns + 1,
      maxCurves |-> MaxCurves,
      sinks |-> {TRUE},
      peers |-> {FALSE},
      pixelsIn |-> {<<0>>, <<0, 1>>},
      durations |-> {2},
      ilimits |-> {50},
      extras |-> {[algo |-> "foo", fields |-> << >>],
                  [algo |-> "basic", fields |-> << >>],
                  [algo |-> "gd", fields |-> <<10, 20>>]},
      nplcs |-> {0 - 1, 1},
      offsets |-> {0},
      ivals |-> {0 - 100},
      hiz |-> {1000, 0 - 1000},
      steps |-> {0, 1},
      statuses |-> {0},
      vectors |-> {[c \in {0} |-> SweepLight], [c \in {1} |-> SweepReverse]} ]

InitEntry == InitWith(EntryInputs)

NextEntry ==
    \/ Reset
    \/ SetAbort
    \/ RegisterCurve(EntryInputs)
    \/ LaunchTracker(EntryInputs)
    \/ ProbeVoc(EntryInputs)
    \/ SeedAndConfigure
    \/ Dispatch
    \/ Recover

SpecEntry == InitEntry /\ [][NextEntry]_vars

\* reset then launch_tracker against an SMU stub whose answers are a function
\* of the commands it has received: a channel reads back its setpoint, a fixed
\* current and open-circuit voltage, status 0, and every measure call takes
\* one second
StubInputs ==
    [ acls |-> {100, 50},
      smuLimits |-> {40},
      maxRuns |-> MaxRuns,
      maxCurves |-> MaxCurves,
      sinks |-> {TRUE},
      peers |-> {FALSE},
      pixelsIn |-> {<<0>>, <<0, 1>>, <<1, 2>>},
      durations |-> {2, 3},
      ilimits |-> {50, 200},
      extras |-> {[algo |-> "gd", fields |-> << >>],
                  [algo |-> "gd", fields |-> <<10, 0, 0 - 1, 0, 1000, 1, 100>>]},
      nplcs |-> {0 - 1, 1},
      offsets |-> {0},
      ivals |-> {0},
      hiz |-> {1000},
      steps |-> {1},
      statuses |-> {0},
      vectors |-> {[c \in {0} |-> SweepLight]} ]

InitStub == InitWith(StubInputs)

NextStub ==
    \/ Reset
    \/ LaunchTracker(StubInputs)
    \/ ProbeVoc(StubInputs)
    \/ SeedAndConfigure
    \/ Dispatch
    \/ GdEnter
    \/ GdBoot(StubInputs)
    \/ GdBootCb
    \/ GdLoop(StubInputs)
    \/ GdLoopCb
    \/ GdFinal
    \/ DscStep(StubInputs)
    \/ DscReturn

SpecStub == InitStub /\ [][NextStub]_vars

\* launch_tracker with step parameters that make every branch of the step
\* computation happen: currents that give a large, a small and no power
\* gradient, a first step of zero, a minimum step of zero
StepInputs ==
    [ acls |-> {100},
      smuLimits |-> {40},
      maxRuns |-> MaxRuns,
      maxCurves |-> MaxCurves,
      sinks |-> {TRUE},
      peers |-> {FALSE},
      pixelsIn |-> {<<0>>, <<0, 1>>},
      durations |-> {3, 4},
      ilimits |-> {50},
      extras |-> {[algo |-> "gd", fields |-> << >>],
                  [algo |-> "gd", fields |-> <<10, 0, 0 - 1, 0, 1000, 1, 0>>],
                  [algo |-> "gd", fields |-> <<10, 20, 0 - 1, 0, 500, 1, 0>>]},
      nplcs |-> {0 - 1},
      offsets |-> {0},
      ivals |-> {0 - 100, 0 - 1, 0},
      hiz |-> {1000},
      steps |-> {1},
      statuses |-> {0},
      vectors |-> {[c \in {0} |-> SweepLight]} ]

InitStep == InitWith(StepInputs)

NextStep ==
    \/ LaunchTracker(StepInputs)
    \/ ProbeVoc(StepInputs)
    \/ SeedAndConfigure
    \/ Dispatch
    \/ GdEnter
    \/ GdBoot(StepInputs)
    \/ GdBootCb
    \/ GdLoop(StepInputs)
    \/ GdLoopCb
    \/ GdFinal
    \/ DscStep(StepInputs)
    \/ DscReturn

SpecStep == InitStep /\ [][NextStep]_vars

\* gradient_descent called directly in snaith mode, on a device whose current
\* changes from one reading to the next and whose channels can exceed the
\* current threshold
SoakInputs ==
    [ acls |-> {100},
      smuLimits |-> {40},
      maxRuns |-> MaxRuns + 1,
      maxCurves |-> MaxCurves,
      sinks |-> {TRUE, FALSE},
      peers |-> {FALSE},
      pixelsIn |-> {<<0, 1>>},
      durations |-> {30, 40},
      ilimits |-> {50},
      extras |-> {[algo |-> "basic", fields |-> << >>]},
      nplcs |-> {0 - 1},
      offsets |-> {0},
      ivals |-> {0 - 100, 0 - 90},
      hiz |-> {1000},
      steps |-> {1, 15},
      statuses |-> {0, 1},
      vectors |-> {[c \in {0, 1} |-> SweepLight]} ]

InitSoak == InitWith(SoakInputs)

NextSoak ==
    \/ LaunchTracker(SoakInputs)
    \/ ProbeVoc(SoakInputs)
    \/ SeedAndConfigure
    \/ Dispatch
    \/ Recover
    \/ GradientDescent(SoakInputs)
    \/ GdEnter
    \/ GdPreSoak(SoakInputs)
    \/ GdPreSoakCb
    \/ GdBoot(SoakInputs)
    \/ GdBootCb
    \/ GdLoop(SoakInputs)
    \/ GdLoopCb
    \/ GdPostSoak(SoakInputs)
    \/ GdPostSoakCb
    \/ GdFinal
    \/ DscStep(SoakInputs)
    \/ DscReturn

SpecSoak == InitSoak /\ [][NextSoak]_vars

\* the perturb-and-observe tracker on a device whose angle can leave the
\* window near the stored V_mpp
DumbInputs ==
    [ acls |-> {100},
      smuLimits |-> {40},
      sinks |-> {TRUE},
      peers |-> {FALSE},
      vmpps |-> {3},
      durations |-> {5},
      dwells |-> {1, 10},
      steps |-> {0, 1},
      highAt |-> {5},
      lowAt |-> {3} ]

InitDumb == InitWith(DumbInputs)

NextDumb ==
    \/ DumbLaunch(DumbInputs)
    \/ DumbRequestStop
    \/ DumbOuter
    \/ DumbExplore(DumbInputs)
    \/ DumbDwell

SpecDumb == InitDumb /\ [][NextDumb]_vars

\* launch_tracker with the gradient descent on an SMU whose every measurement
\* returns after one second, with any status; an observer may set abort
LiveInputs ==
    [ acls |-> {100},
      smuLimits |-> {40},
      maxRuns |-> MaxRuns,
      maxCurves |-> MaxCurves,
      sinks |-> {TRUE},
      peers |-> {FALSE},
      pixelsIn |-> {<<0>>, <<0, 1>>},
      durations |-> {3, 4},
      ilimits |-> {50},
      extras |-> {[algo |-> "gd", fields |-> << >>]},
      nplcs |-> {0 - 1},
      offsets |-> {0},
      ivals |-> {0 - 100, 0 - 90},
      hiz |-> {1000},
      steps |-> {1},
      statuses |-> {0, 1, 2},
      vectors |-> {[c \in {0} |-> SweepLight]} ]

InitLive == InitWith(LiveInputs)

\* the steps of the thread that executes launch_tracker
RunLive ==
    \/ ProbeVoc(LiveInputs)
    \/ SeedAndConfigure
    \/ Dispatch
    \/ GdEnter
    \/ GdBoot(LiveInputs)
    \/ GdBootCb
    \/ GdLoop(LiveInputs)
    \/ GdLoopCb
    \/ GdFinal
    \/ DscStep(LiveInputs)
    \/ DscReturn

NextLive ==
    \/ LaunchTracker(LiveInputs)
    \/ SetAbort
    \/ RunLive

\* the thread keeps running: no call it makes blocks
SpecLive == InitLive /\ [][NextLive]_vars /\ WF_vars(RunLive)

\* two mppt objects of one process; light sweeps are registered on either
PairInputs ==
    [ acls |-> {100},
      smuLimits |-> {40},
      maxCurves |-> MaxCurves + 1,
      sinks |-> {TRUE},
      peers |-> {TRUE},
      vectors |-> {[c \in {0} |-> SweepLight], [c \in {0} |-> SweepHigh],
                   [c \in {1} |-> SweepReverse]} ]

InitPair == InitWith(PairInputs)

NextPair ==
    \/ RegisterCurve(PairInputs)
    \/ Reset
    \/ OtherRegisterCurve(PairInputs)
    \/ OtherReset

SpecPair == InitPair /\ [][NextPair]_vars

\* register_curve alone: sweeps of one or two points in any quadrant
CurvePoints == {[v |-> x, i |-> y, t |-> 0] : x \in {0 - 2, 1, 2}, y \in {0 - 1, 2, 3}}

CurveSweeps == {<<a>> : a \in CurvePoints} \cup {<<a, b>> : a \in CurvePoints, b \in CurvePoints}

CurveInputs ==
    [ acls |-> {100},
      smuLimits |-> {40},
      maxCurves |-> MaxCurves + 1,
      sinks |-> {TRUE},
      peers |-> {FALSE},
      vectors |-> {[c \in {0} |-> sw] : sw \in CurveSweeps}
                    \cup {[c \in {0, 1} |-> <<a>>] : a \in CurvePoints} ]

InitCurves == InitWith(CurveInputs)

NextCurves ==
    \/ RegisterCurve(CurveInputs)
    \/ Reset

SpecCurves == InitCurves /\ [][NextCurves]_vars

(***************************************************************************)
(* Properties                                                              *)
(***************************************************************************)
\* the step hands a batch measure to the SMU
BatchMeasured == pc # "dsc" /\ pc' = "dsc"

\* the step is one pass of the loop body of detect_short_circuits
DscVisited == pc = "dsc" /\ dscIdx <= Len(dscChannels) /\ (dscIdx' # dscIdx \/ pc' = "raised")

\* the positions at which a batch is handed to the callback
CallbackPcs == {"gd_presoak_cb", "gd_boot_cb", "gd_loop_cb", "gd_postsoak_cb"}

\* a call that commands a channel: a setpoint, a measurement, or switching it on
Commands(call) ==
    \/ call.op \in {"configure_dc", "measure"}
    \/ call.op = "enable_output" /\ call.on

\* C1: once detect_short_circuits has evicted a channel, no later step of the
\* run issues a configure_dc, a measure or an enable_output(True) naming it.
EvictionPermanence ==
    [][\A k \in DOMAIN smuLog' :
          Commands(smuLog'[k]) => smuLog'[k].chans \cap evicted = {}]_vars

\* C2: detect_short_circuits never raises, whatever the statuses of the batch.
MonitorNeverRaises == ~(pc = "raised" /\ err.where = "detect_short_circuits")

\* C3: when detect_short_circuits visits an active channel c with status 2 it
\* does not raise; it disables c and measures the mate c' once; then either c
\* alone is evicted and c' stays as it was, or c' is disabled and evicted, c
\* is re-enabled and measured once more, and c is evicted or kept.
BoardTripResolved ==
    [][(/\ DscVisited
        /\ dscChannels[dscIdx] \in Keys(pixels) \cap DOMAIN data
        /\ data[dscChannels[dscIdx]].status = OVERCURRENT_TRIP)
       => LET c == dscChannels[dscIdx]
              mate == OtherCh(c)
          IN  /\ pc' = "dsc"
              /\ Len(smuLog') >= 2
              /\ smuLog'[1] = LogEnable(FALSE, {c})
              /\ smuLog'[2] = LogMeasure({mate})
              /\ \/ /\ Len(smuLog') = 2
                    /\ evicted' = evicted \cup {c}
                    /\ pixels' = PopKey(pixels, c)
                    /\ ~output'[c] /\ output'[mate] = output[mate]
                 \/ /\ Len(smuLog') >= 5
                    /\ smuLog'[3] = LogEnable(TRUE, {c})
                    /\ smuLog'[4] = LogEnable(FALSE, {mate})
                    /\ smuLog'[5] = LogMeasure({c})
                    /\ ~output'[mate]
                    /\ \/ /\ evicted' = evicted \cup {mate}
                          /\ pixels' = PopKey(pixels, mate)
                          /\ output'[c]
                       \/ /\ evicted' = evicted \cup {mate, c}
                          /\ pixels' = PopKey(PopKey(pixels, mate), c)
                          /\ ~output'[c]]_vars

\* C4: a channel whose record in the batch has status 1 is, after the pass of
\* detect_short_circuits, switched off, out of pixels and out of the batch;
\* the step that evicts it leaves every other channel's output, pixels entry
\* and batch record as they were.
SoftEvictionDone ==
    pc \in CallbackPcs =>
        \A c \in DOMAIN measured :
            measured[c].status = CURRENT_OVER_THRESHOLD =>
                ~output[c] /\ c \notin Keys(pixels) /\ c \notin DOMAIN data

SoftEvictionLocal ==
    (/\ DscVisited
     /\ dscChannels[dscIdx] \in Keys(pixels) \cap DOMAIN data
     /\ data[dscChannels[dscIdx]].status = CURRENT_OVER_THRESHOLD)
    => LET c == dscChannels[dscIdx]
       IN  /\ ~output'[c]
           /\ \A d \in Channels \ {c} : output'[d] = output[d]
           /\ c \notin Keys(pixels')
           /\ pixels' = SelectSeq(pixels, LAMBDA d : d # c)
           /\ DOMAIN data' = (DOMAIN data) \ {c}
           /\ \A d \in DOMAIN data' : data'[d] = data[d]
           /\ pc' = "dsc"

SoftLimitEviction == []SoftEvictionDone /\ [][SoftEvictionLocal]_vars

SoftLimitEvicted ==
    /\ pc \in CallbackPcs
    /\ Len(pixels) > 0
    /\ \E c \in DOMAIN measured :
          /\ measured[c].status = CURRENT_OVER_THRESHOLD
          /\ ~output[c] /\ c \notin Keys(pixels) /\ c \notin DOMAIN data

\* C5: in every phase of gradient_descent the pass of detect_short_circuits
\* over a batch is complete before the batch reaches the callback or the
\* gradient: the batch then holds exactly the active channels and no record
\* with status 1 or 2, and it is that batch the callback and m receive.  The
\* batch measure of an iteration names exactly the channels still in pixels,
\* none of them evicted in an earlier iteration.
MonitorCompleted ==
    pc \in CallbackPcs =>
        /\ dscIdx > Len(dscChannels)
        /\ DOMAIN data = Keys(pixels)
        /\ \A c \in DOMAIN data :
              data[c].status \notin {CURRENT_OVER_THRESHOLD, OVERCURRENT_TRIP}

BatchHandedOn ==
    (pc \in CallbackPcs /\ pc' # pc /\ pc' # "raised") =>
        /\ delivered' = data
        /\ pc \in {"gd_boot_cb", "gd_loop_cb"} => m'[1] = data

BatchNamesActive ==
    BatchMeasured =>
        /\ smuLog' # << >>
        /\ smuLog'[Len(smuLog')] = LogMeasure(Keys(pixels))
        /\ Keys(pixels) \cap evicted = {}
        /\ DOMAIN data' = Keys(pixels)

Configured == {smuLog[k].values : k \in {j \in DOMAIN smuLog : smuLog[j].op = "configure_dc"}}

\* C6: while voltage_lock is positive no voltage passed to configure_dc is
\* below 0, and while it is negative none is above 0; the configure_dc of the
\* stored V_mpp values in launch_tracker is included.
QuadrantLockHolds ==
    \A values \in Configured : \A c \in DOMAIN values :
        /\ voltage_lock = "positive" => values[c] >= 0
        /\ voltage_lock = "negative" => values[c] <= 0

\* C7: while voltage_lock is positive every voltage the gradient-descent loop
\* passes to configure_dc is strictly greater than 0.
StrictQuadrantLock ==
    (pc = "dsc" /\ dscRet = "gd_loop_cb" /\ voltage_lock = "positive") =>
        \A values \in Configured : \A c \in DOMAIN values : values[c] > 0

\* C8: every voltage v passed to configure_dc for a channel c with a stored
\* V_oc satisfies |v| <= 1.5 * |V_oc[c]|.
SafetyBound ==
    \A values \in Configured : \A c \in (DOMAIN values) \cap (DOMAIN Voc) :
        2 * Abs(values[c]) <= 3 * Abs(Voc[c])

\* C9: while launch_tracker runs, the current limit in force on the SMU does
\* not exceed absolute_current_limit in magnitude.
CurrentCeiling ==
    pc \notin {"idle", "raised"} => Abs(smuILimit) <= absolute_current_limit

\* C10: a register_curve call never decreases the absolute value of the
\* stored P_max of a channel.
MonotonePmax ==
    [][curves' = curves + 1 =>
          \A c \in DOMAIN Pmax :
              c \in DOMAIN Pmax' /\ Abs(Pmax'[c]) >= Abs(Pmax[c])]_vars

\* the entry of a dict for a channel, or nothing
At(f, c) == IF c \in DOMAIN f THEN <<f[c]>> ELSE << >>

\* the step is a register_curve call
CurveRegistered == curves' = curves + 1

\* the step leaves the six stored reference values of channel c as they were
ReferenceKept(c) ==
    /\ At(Vmpp', c) = At(Vmpp, c) /\ At(Impp', c) = At(Impp, c)
    /\ At(Pmax', c) = At(Pmax, c) /\ At(Mmpp', c) = At(Mmpp, c)
    /\ At(Voc', c) = At(Voc, c) /\ At(Isc', c) = At(Isc, c)

\* C11: register_curve leaves the stored V_mpp, I_mpp, P_max, M_mpp, V_oc and
\* I_sc of a channel unchanged when the sweep is not a light sweep, and when
\* it is a light sweep whose P_max does not strictly exceed the stored P_max;
\* with a stored P_max of -6 a later light sweep with P_max -4 changes
\* nothing (the example -1.2e-3 and -8.0e-4, in units of 2e-4).
ReferenceFrame ==
    [][CurveRegistered =>
          \A c \in DOMAIN lastRet'.Pmaxs :
              /\ ~lastRet'.light => ReferenceKept(c)
              /\ (c \in DOMAIN Pmax /\ lastRet'.Pmaxs[c] <= Pmax[c]) => ReferenceKept(c)
              /\ (c \in DOMAIN Pmax /\ Pmax[c] = 0 - 6 /\ lastRet'.Pmaxs[c] = 0 - 4)
                     => ReferenceKept(c)]_vars

\* the sweep registered for channel c by the register_curve call just made
Registered(c) == lastRet'.vector[c]

\* C12: register_curve writes a channel's stored V_oc only if the sweep
\* straddles I = 0 and its stored I_sc only if the sweep straddles V = 0; a
\* V_oc it stores is the V of a sample with least |I|, an I_sc it stores is
\* the I of a sample with least |V|.
StraddleGate ==
    [][CurveRegistered =>
          \A c \in DOMAIN lastRet'.vector :
              LET sw == Registered(c)
                  Is == {sw[k].i : k \in DOMAIN sw}
                  Vs == {sw[k].v : k \in DOMAIN sw}
              IN  /\ At(Voc', c) # At(Voc, c) =>
                        /\ (\E x \in Is : x <= 0) /\ (\E x \in Is : x >= 0)
                        /\ \E k \in DOMAIN sw :
                              /\ \A j \in DOMAIN sw : Abs(sw[k].i) <= Abs(sw[j].i)
                              /\ Voc'[c] = sw[k].v
                  /\ At(Isc', c) # At(Isc, c) =>
                        /\ (\E x \in Vs : x <= 0) /\ (\E x \in Vs : x >= 0)
                        /\ \E k \in DOMAIN sw :
                              /\ \A j \in DOMAIN sw : Abs(sw[k].v) <= Abs(sw[j].v)
                              /\ Isc'[c] = sw[k].i]_vars

\* a sweep that straddles I = 0 but not V = 0 has stored a V_oc and no I_sc
VocStoredAlone ==
    /\ lastRet.kind = "register_curve"
    /\ \E c \in DOMAIN lastRet.vector :
          /\ c \in DOMAIN Voc /\ c \notin DOMAIN Isc
          /\ Len(lastRet.vector[c]) = 2
          /\ lastRet.vector[c][1].i > 0 /\ lastRet.vector[c][2].i < 0
          /\ lastRet.vector[c][1].v # lastRet.vector[c][2].v
          /\ Abs(lastRet.vector[c][2].i) < Abs(lastRet.vector[c][1].i)
          /\ Voc[c] = lastRet.vector[c][2].v

\* C13: the index register_curve returns for a channel is the index of a
\* sample with V*I <= 0 whose |V*I| is greatest among the samples with
\* V*I <= 0, and the returned P_max, V_mpp and I_mpp are the values at that
\* index (indices count from 1 here, from 0 in the code).
GenerationQuadrantMax ==
    [][CurveRegistered =>
          \A c \in DOMAIN lastRet'.vector :
              LET sw == Registered(c)
                  k == lastRet'.maxIndexs[c]
                  vi(j) == sw[j].v * sw[j].i
              IN  /\ k \in DOMAIN sw
                  /\ vi(k) <= 0
                  /\ \A j \in DOMAIN sw : vi(j) <= 0 => Abs(vi(k)) >= Abs(vi(j))
                  /\ lastRet'.Pmaxs[c] = Abs(vi(k))
                  /\ lastRet'.Vmpps[c] = sw[k].v
                  /\ lastRet'.Impps[c] = sw[k].i]_vars

\* C14: after launch_tracker has seeded and configured (before it dispatches)
\* every channel of pixels has a stored V_oc and a stored V_mpp, and the
\* V_mpp is the one register_curve stored for it or else 0.7 * V_oc.
BootstrapPostcondition ==
    (pc = "lt_dispatch" /\ runs = 1) =>
        \A c \in Keys(pixels) :
            /\ c \in DOMAIN Voc
            /\ c \in DOMAIN Vmpp
            /\ Vmpp[c] = IF c \in DOMAIN Mmpp THEN Mmpp[c][1] ELSE SeedVmpp(Voc[c])

\* the calls of the step just taken, by position
Issued(k) == smuLog'[k]

\* C15: in launch_tracker the V_oc probe measurement comes after an
\* enable_output(False) naming all channels of the run, configure_dc with the
\* V_mpp setpoints comes before enable_output(True), and every later batch
\* measurement of the run finds the outputs of its channels switched on.
BootstrapOrdering ==
    [][/\ \A k \in DOMAIN smuLog' :
            /\ (pc = "lt_voc" /\ Issued(k).op = "measure") =>
                  \E j \in 1 .. (k - 1) :
                      /\ Issued(j) = LogEnable(FALSE, Keys(pixels))
                      /\ Issued(k).chans \subseteq Issued(j).chans
            /\ (pc = "lt_seed" /\ Issued(k).op = "enable_output" /\ Issued(k).on) =>
                  \E j \in 1 .. (k - 1) : Issued(j) = LogConfigure(Vmpp')
            /\ (from_launch /\ Issued(k).op = "measure") => pc # "lt_seed"
       /\ (BatchMeasured /\ from_launch) =>
             /\ pc \notin {"idle", "lt_voc", "lt_seed"}
             /\ \A c \in smuLog'[Len(smuLog')].chans : output[c]]_vars

\* the bootstrap has probed V_oc, written the setpoints and enabled the outputs
BootstrapDone ==
    /\ pc = "lt_dispatch"
    /\ ssvocs # EmptyDict
    /\ smuLog = <<LogConfigure(Vmpp), LogEnable(TRUE, Keys(pixels))>>
    /\ \A c \in Keys(pixels) : output[c]

\* launch_tracker has returned (traces, ssvocs) from a tracking algorithm
TrackerReturned == pc = "idle" /\ lastRet.kind = "launch_tracker" /\ ~lastRet.warned

\* C16: when launch_tracker returns (traces, ssvocs), after the duration has
\* elapsed, after an abort or after every channel was evicted, the outputs of
\* all channels are disabled.
OutputsOffAtReturn == TrackerReturned => \A c \in Channels : ~output[c]

\* C17: when an SMU call fails during launch_tracker the fault reaches the
\* caller, and by then the outputs of all channels are disabled.
FaultCleanup ==
    (pc = "raised" /\ err.kind = "DriverFault") => \A c \in Channels : ~output[c]

\* the heads of the main loop and of the two snaith soak loops
LoopHeads == {"gd_loop", "gd_presoak", "gd_postsoak"}

\* C18: once abort is set no new iteration of the main loop, of the pre-soak
\* or of the post-soak begins: from a loop head no batch measurement starts.
CancellationPoints ==
    [][(abort /\ pc \in LoopHeads) => pc' # "dsc"]_vars

\* C19: the traces launch_tracker returns hold, for every channel, the
\* measurement records the algorithm delivered to the callback; after a run
\* that delivered a batch, the last batch's records are in the traces.
TracesHoldDelivered ==
    (TrackerReturned /\ delivered # EmptyDict) =>
        \E k \in 1..Len(lastRet.m) :
            \A c \in DOMAIN delivered :
                \E j \in 1..Len(lastRet.m[k]) : lastRet.m[k][j] = delivered[c]

\* C20: a gd/snaith parameter string without exactly 7 fields makes
\* launch_tracker fail at entry, before any SMU operation and before any
\* reference state changes: when the ValueError is raised no V_oc has been
\* measured and stored and no channel output has been enabled.
FailFastAtEntry ==
    (pc = "raised" /\ err.kind = "ValueError") =>
        /\ ssvocs = EmptyDict
        /\ \A c \in Channels : ~output[c]

\* launch_tracker was called with an empty parameter string and a documented
\* algorithm name
DefaultsRequested ==
    from_launch /\ extra.algo \in {"gd", "snaith", "basic"} /\ Len(extra.fields) = 0

\* C21: for each algo in {gd, snaith, basic} with an empty parameter string
\* launch_tracker runs the corresponding tracker with its defaults: the call
\* neither fails at the tracker's entry nor returns having skipped tracking.
DispatchRunsTracker ==
    DefaultsRequested =>
        /\ ~(pc = "raised" /\ err.kind = "TypeError")
        /\ ~(pc = "idle" /\ lastRet.kind = "launch_tracker" /\ lastRet.warned)

\* the algorithm names line 193 recognises
Recognised == {"gd", "snaith"}

\* the running call takes its step from position p
StepFrom(p) == pc = p /\ pc' # p

\* C22: with an algorithm name that is not recognised launch_tracker raises
\* nothing, issues no SMU command beyond the bootstrap, changes no reference
\* state, and returns with the warning an empty trace list and the records of
\* the V_oc probe; when V_oc was already known the probe is skipped and those
\* records are empty.
UnknownAlgorithmSkipped ==
    [][/\ (StepFrom("lt_voc") /\ Voc # EmptyDict) =>
              (ssvocs' = EmptyDict /\ smuLog' = << >>)
       /\ (StepFrom("lt_voc") /\ Voc = EmptyDict) =>
              (DOMAIN ssvocs' = Keys(pixels) /\ smuLog'[2] = LogMeasure(Keys(pixels)))
       /\ StepFrom("lt_seed") => ssvocs' = ssvocs
       /\ (StepFrom("lt_dispatch") /\ extra.algo \notin Recognised) =>
              /\ pc' = "idle" /\ err' = NoError
              /\ lastRet' = [kind |-> "launch_tracker", m |-> << >>,
                             ssvocs |-> ssvocs, warned |-> TRUE]
              /\ smuLog' = << >>
              /\ UNCHANGED <<refVars, output, setpoint>>]_vars

UnknownSkippedKnownVoc ==
    /\ pc = "idle" /\ lastRet.kind = "launch_tracker" /\ lastRet.warned
    /\ extra.algo = "foo"
    /\ lastRet.m = << >> /\ lastRet.ssvocs = EmptyDict
    /\ Voc # EmptyDict /\ \E c \in Keys(pixels) : output[c]

\* C23: against a deterministic SMU stub a run is determined by its
\* configuration: the setpoints an iteration commands next follow from the
\* measurements alone, whatever random.choice returned.
DeterministicSetpoints ==
    [][(StepFrom("gd_loop_cb") /\ pc' = "gd_loop") =>
           \A some_sign \in {0 - 1, 1} : next_voltages' = StepVoltages(some_sign)]_vars

\* C24: a snaith run of duration D is a pre-soak of snaith_pre_soak_t seconds,
\* a gradient-descent core of D - snaith_pre_soak_t - snaith_post_soak_t
\* seconds and a post-soak: when the core time is positive and the run was
\* neither aborted nor left without channels, the core has performed at least
\* one iteration by the time the post-soak starts.
SnaithCoreRuns ==
    (pc = "gd_postsoak" /\ snaith_mode /\ ~abort /\ Len(pixels) > 0 /\ duration > 0)
        => iter >= 1

\* no reference value is stored for any channel
Cleared ==
    /\ Voc = EmptyDict /\ Isc = EmptyDict /\ Vmpp = EmptyDict
    /\ Impp = EmptyDict /\ Pmax = EmptyDict /\ Mmpp = EmptyDict

StepsComputed == StepFrom("gd_loop_cb") /\ pc' = "gd_loop"

\* C26: with 0 <= min_step <= max_step, after the step-limit stage of every
\* iteration the step of every channel has a magnitude of at least min_step
\* and at most max_step, whatever gradient was computed; with min_step = 0
\* the lower bound is none.
StepSizeBounds ==
    [][(StepsComputed /\ 0 <= params.min_step /\ params.min_step <= params.max_step) =>
           \A ch \in DOMAIN deltas' :
               /\ params.min_step <= Abs(deltas'[ch])
               /\ Abs(deltas'[ch]) <= params.max_step]_vars

\* the first iteration computed a step above max_step for some channel, and
\* that channel's step is now max_step
StepCutToMax ==
    /\ pc = "gd_loop" /\ iter = 1 /\ Len(m) = 2
    /\ \E ch \in DOMAIN m[1] :
          /\ m[1][ch].v # m[2][ch].v
          /\ Abs(MomentumStep(m[1][ch], m[2][ch], params, params.delta_zero, 1))
                 > params.max_step
          /\ Abs(deltas[ch]) = params.max_step

\* the step the momentum update of lines 408-412 gives channel ch, before the
\* limits, from the two most recent records
RawStep(ch) == MomentumStep(data[ch], m[1][ch], params, deltas[ch], 1)

\* C27: when the momentum update gives a defined, non-zero step whose
\* magnitude is below min_step or above max_step, the clamped step has the
\* sign of that step.
ClampKeepsSign ==
    [][StepsComputed =>
           \A ch \in DOMAIN data :
               (/\ data[ch].v # m[1][ch].v
                /\ RawStep(ch) # 0
                /\ \/ Abs(RawStep(ch)) < params.min_step
                   \/ Abs(RawStep(ch)) > params.max_step)
               => Sign(deltas'[ch]) = Sign(RawStep(ch))]_vars

\* the magnitude of the step taken when the gradient is undefined
DegenerateSize == IF params.min_step = 0 THEN Epsilon ELSE params.min_step

MppKept(ch) ==
    /\ (ch \in DOMAIN Vmpp') = (ch \in DOMAIN Vmpp)
    /\ (ch \in DOMAIN Impp') = (ch \in DOMAIN Impp)
    /\ ch \in DOMAIN Vmpp => Vmpp'[ch] = Vmpp[ch]
    /\ ch \in DOMAIN Impp => Impp'[ch] = Impp[ch]

\* C29: when gradient_descent returns, the stored V_mpp and I_mpp of every
\* channel still tracked are the V and I of its record in the last batch
\* measured in the run (the last post-soak batch when a post-soak ran), and
\* those of the channels evicted during the run are left as they were.
FinalizationWriteBack ==
    [][StepFrom("gd_final") =>
           /\ \A ch \in Keys(pixels) :
                  /\ ch \in DOMAIN Vmpp' /\ Vmpp'[ch] = delivered[ch].v
                  /\ ch \in DOMAIN Impp' /\ Impp'[ch] = delivered[ch].i
           /\ \A ch \in evicted : MppKept(ch)]_vars

\* what the sink was handed in this step
NewEvents == SubSeq(events', Len(events) + 1, Len(events'))

\* the channels a step of the monitor took out of pixels
NewlyEvicted == Keys(pixels) \ Keys(pixels')

ExploreWithinBounds ==
    dumb.sent = "explore" => (0 < dumb.source /\ dumb.source < VocSteps)

\* an explore pass or a dwell begins in this step
DumbStarts ==
    \/ dumb.pc = "explore" /\ dumb'.pc # "dwell" /\ dumb' # dumb
    \/ dumb.pc = "dwell" /\ dumb'.pc = "outer"

\* C32: the perturb-and-observe tracker starts no explore step and no dwell
\* once duration has elapsed or a stop has been requested
NoWorkAfterDuration ==
    [][DumbStarts => (dumb.clock - dumb.t0 < dumb.duration /\ ~dumb.requested)]_vars

\* C33: while a run is in progress the set of keys of pixels only shrinks, and
\* every key of pixels is a key of the mapping the caller passed in
ActiveSetShrinks ==
    [][pc # "idle" => (Keys(pixels') \subseteq Keys(pixels)
                       /\ Keys(pixels') \subseteq Keys(callPixels'))]_vars

\* the main loop runs on after the monitor removed one of two channels
LoopAfterEviction ==
    /\ pc = "gd_loop"
    /\ Keys(callPixels) \ Keys(pixels) # {}
    /\ Keys(pixels) # {}

\* detect_short_circuits has visited every channel and is about to return
PassReturns == pc = "dsc" /\ dscIdx > Len(dscChannels)

\* C34: when detect_short_circuits returns, the output of every channel it
\* evicted is disabled, and in a run started by launch_tracker, which enables
\* the outputs of the run's channels, the output of every channel still
\* active is enabled
OutputsAfterPass ==
    PassReturns =>
        /\ \A ch \in evicted : ~output[ch]
        /\ from_launch => \A ch \in Keys(pixels) : output[ch]

\* a pass of a launch_tracker run returns with one channel evicted, one kept
PassEvictedOneOfTwo ==
    /\ PassReturns
    /\ from_launch
    /\ evicted # {}
    /\ Keys(pixels) # {}

\* C35: every channel named in a configure_dc, measure or enable_output call
\* made during a run is a key of the pixels mapping the caller passed in
OnlyRunChannels ==
    pc # "idle" =>
        \A k \in DOMAIN smuLog :
            smuLog[k].op \in {"configure_dc", "measure", "enable_output"}
                => smuLog[k].chans \subseteq Keys(callPixels)

\* C36: no call on another mppt object changes the reference state of this
\* object, whether or not reset() has been called on either
InstanceIsolation ==
    [][other'.calls # other.calls => UNCHANGED refVars]_vars

\* C37: between calls, for every channel with a stored P_max the stored values
\* agree: P_max = -(V_mpp * I_mpp), and M_mpp holds the V of V_mpp and the I
\* of I_mpp
ReferenceConsistent ==
    pc = "idle" =>
        \A ch \in DOMAIN Pmax :
            /\ ch \in DOMAIN Vmpp /\ ch \in DOMAIN Impp /\ ch \in DOMAIN Mmpp
            /\ Pmax[ch] = 0 - (Vmpp[ch] * Impp[ch])
            /\ Mmpp[ch][1] = Vmpp[ch]
            /\ Mmpp[ch][2] = Impp[ch]

\* C38: compute_grad raises nothing: no run ends with a ZeroDivisionError
\* from the gradient computation
ComputeGradNeverRaises ==
    ~(pc = "raised" /\ err = [kind |-> "ZeroDivisionError", where |-> "compute_grad"])

\* the mppt loop begins another iteration in this step
IterationStarts == pc = "gd_loop" /\ pc' \notin {"gd_loop", "gd_final", "gd_postsoak"}

\* C39: with an advancing clock and SMU calls that return, a tracker run
\* always ends; the mppt loop begins an iteration only while abort is unset,
\* the time since launch_tracker started is below duration and pixels is not
\* empty; and no configure_dc is issued in a run whose pixels is empty
GradientDescentTerminates ==
    /\ (pc \notin {"idle", "raised"}) ~> (pc \in {"idle", "raised"})
    /\ [][IterationStarts =>
            (~abort /\ clock - t0 < duration /\ Len(pixels) > 0)]_vars
    /\ [][(pc # "idle" /\ Len(pixels) = 0) =>
            \A k \in DOMAIN smuLog' : smuLog'[k].op # "configure_dc"]_vars

\* the loop has run and ends because duration has elapsed
LoopEndedByClock ==
    /\ pc = "gd_final"
    /\ iter >= 1
    /\ ~abort
    /\ Len(pixels) > 0
    /\ clock - t0 >= duration

====
